---- MODULE Spec2Model ----
(***************************************************************************)
(* Inventory ledger of the textile-yarn inventory service                  *)
(* (backend/database_storage.py, class DatabaseManager).                   *)
(*                                                                         *)
(* The tables inventory_lots, inventory_transactions, sales_orders (with   *)
(* their items), sales_challans and sales_challan_items are the state.     *)
(* Every DatabaseManager.execute_query call is its own committed database  *)
(* transaction (execute_query commits at line 161); only the sales_orders  *)
(* and sales_order_items rows written through the cursor of                *)
(* create_sales_order belong to a transaction that can be rolled back.     *)
(***************************************************************************)
EXTENDS Integers, Sequences, FiniteSets, TLC

\* ------------------------------------------------------------------ bounds
MaxLots == 2
MaxOrders == 2
MaxChallans == 1
MaxOps == 4

Products == {1, 2}
Locations == {1, 2}

\* location_id=None
NoLocation == 0

\* SELECT id FROM locations WHERE is_active = true ORDER BY id LIMIT 1
FirstActiveLocation == CHOOSE l \in Locations : \A m \in Locations : l <= m
GrnQtys == {2}
OrderQtys == {1, 3}

VARIABLES lots, txns, orders, challans, challanItems, last, nOps, calls, alloc, audit_log,
          grnItems, purchase_orders

vars ==
    <<lots, txns, orders, challans, challanItems, last, nOps, calls, alloc, audit_log,
      grnItems, purchase_orders>>

\* ----------------------------------------------------------------- helpers

RECURSIVE SumQuantity(_)
SumQuantity(s) == IF s = <<>> THEN 0 ELSE Head(s).quantity + SumQuantity(Tail(s))

RECURSIVE SumWeight(_)
SumWeight(s) == IF s = <<>> THEN 0 ELSE Head(s).weight_kg + SumWeight(Tail(s))

Item(p, w) == [product_id |-> p, weight_kg |-> w]

ItemSeqs(qs) ==
    UNION {[1..n -> {Item(p, w) : p \in Products, w \in qs}] : n \in {1, 2}}

\* ------------------------------------------------------------ rows
LotRow(p, loc, w, grnItem, now) ==
    [product_id |-> p, location_id |-> loc, available_quantity |-> w,
     committed_quantity |-> 0, grn_item_id |-> grnItem, created_at |-> now]

TxnRow(lot, type, q, loc, refType, refId, tag, bal) ==
    [lot_id |-> lot, transaction_type |-> type, quantity |-> q,
     location_id |-> loc, reference_type |-> refType, reference_id |-> refId,
     reservation_type |-> tag, balance_quantity |-> bal]

OrderRow(items, number) ==
    [present |-> TRUE, status |-> "New", items |-> items, so_number |-> number,
     converted_to_challan |-> FALSE, is_deleted |-> FALSE]

\* the id a sales_orders insert consumed from the SERIAL although the row
\* was rolled back
RolledBackOrder ==
    [present |-> FALSE, status |-> "New", items |-> <<>>, so_number |-> <<"SO", 0, 0>>,
     converted_to_challan |-> FALSE, is_deleted |-> FALSE]

\* ------------------------------------------------------ document numbers
\* f"{prefix}/{year}/{month}/{day}/{sequential_id}": the parts of the
\* number, the date parts taken together as the day
DocNumber(prefix, day, n) == <<prefix, day, n>>

RECURSIVE ProbeFrom(_, _)
ProbeFrom(used, sequential_id) ==
    IF sequential_id \in used THEN ProbeFrom(used, sequential_id + 1)
    ELSE sequential_id

NextSequentialIdByCount(used) == Cardinality(used) + 1

\* sequential_id = 1; while sequential_id in used_ids: sequential_id += 1
NextSequentialId(used) == ProbeFrom(used, 1)

\* the minting block shared by create_grn, create_purchase_order,
\* create_sales_order, create_sales_challan and create_inventory_lot
\* WHERE ..._number LIKE '{prefix}/{year}/{month}/{day}/%', then
\* int(parts[4]) of every row found
MintDocNumber(numbers, prefix, day) ==
    DocNumber(prefix, day,
              NextSequentialId({num[3] : num \in {x \in numbers : /\ x[1] = prefix
                                                                   /\ x[2] = day}}))

\* the committed sales_orders rows (soft-deleted ones included)
CommittedNumbers(os) == {os[i].so_number : i \in {j \in DOMAIN os : os[j].present}}

MintSoNumber(os, day) == MintDocNumber(CommittedNumbers(os), "SO", day)

\* datetime.now() of the calls of the sequential ledger
Today == 1

Db(ls, tx) == [lots |-> ls, txns |-> tx]

\* ----------------------------------------- record_inventory_transaction
NewBalance(type, current, q) ==
    IF type = "INBOUND" THEN current + q
    ELSE IF type = "OUTBOUND" THEN current - q
    ELSE IF type = "ADJUSTMENT" THEN current + q
    ELSE current

OutboundAllowed(current, q) == ~(current < q)

\* returns the database after the call and whether it returned an error
record_inventory_transaction(db, lot, type, q, loc, refType, refId) ==
    IF lot \notin DOMAIN db.lots
    THEN [db |-> db, error |-> TRUE]
    ELSE LET current == db.lots[lot].available_quantity IN
         IF type = "OUTBOUND" /\ ~OutboundAllowed(current, q)
         THEN [db |-> db, error |-> TRUE]
         ELSE LET nb == NewBalance(type, current, q) IN
              [db |-> Db([db.lots EXCEPT ![lot].available_quantity = nb],
                         Append(db.txns,
                                TxnRow(lot, type, q, loc, refType, refId, "NULL", nb))),
               error |-> FALSE]

\* ------------------------------------------------- create_inventory_lot
\* lines 3093-3116 mint the lot number of the day, lines 3119-3125 insert
\* the row, lines 3133-3143 record the INBOUND transaction
create_inventory_lot(db, p, loc, grnItem, w) ==
    LET lot == Len(db.lots) + 1
        lot_number == MintDocNumber({db.lots[i].lot_number : i \in DOMAIN db.lots},
                                    "LOT", Today)
        inserted == Db(Append(db.lots, LotRow(p, loc, w, grnItem, lot)
                                           @@ [lot_number |-> lot_number]),
                       db.txns)
    IN record_inventory_transaction(inserted, lot, "INBOUND", w, loc, "GRN", grnItem).db

\* ------------------------------------------------------------ create_grn
NoFaults == [k \in 1..2 |-> "none"]

\* lines 1841-1877; st = [db, grnItems]; the row of goods_receipt_items is
\* inserted with inventory_lot_id 0 (NULL)
\* lines 1866-1876: the item is linked only when the lot was created, and
\* the result of the UPDATE is not looked at
RECURSIVE create_grn(_, _, _, _, _)
create_grn(st, grn_id, loc, items, faults) ==
    IF items = <<>> THEN st
    ELSE LET item == Head(items)
             fault == Head(faults)
             grn_item_id == Len(st.grnItems) + 1
             inserted == Append(st.grnItems,
                                [grn_id |-> grn_id, product_id |-> item.product_id,
                                 weight_kg |-> item.weight_kg, inventory_lot_id |-> 0])
             lot == Len(st.db.lots) + 1
             next ==
                 IF fault = "lot_insert"
                 THEN [db |-> st.db, grnItems |-> inserted]
                 ELSE [db |-> create_inventory_lot(st.db, item.product_id, loc,
                                                   grn_item_id, item.weight_kg),
                       grnItems |-> IF fault # "link_update"
                                    THEN [inserted EXCEPT
                                             ![grn_item_id].inventory_lot_id = lot]
                                    ELSE inserted]
         IN create_grn(next, grn_id, loc, Tail(items), Tail(faults))

\* --------------------------------------------------------- FIFO ordering
\* ORDER BY created_at ASC; lots are inserted one statement at a time, so
\* created_at grows with the lot id
RECURSIVE OrderByCreatedAt(_, _)
OrderByCreatedAt(ls, S) ==
    IF S = {} THEN <<>>
    ELSE LET first == CHOOSE i \in S : \A j \in S :
                          \/ ls[i].created_at < ls[j].created_at
                          \/ (ls[i].created_at = ls[j].created_at /\ i <= j)
         IN <<first>> \o OrderByCreatedAt(ls, S \ {first})

RECURSIVE TotalAvailable(_, _)
TotalAvailable(ls, ids) ==
    IF ids = <<>> THEN 0
    ELSE ls[Head(ids)].available_quantity + TotalAvailable(ls, Tail(ids))

\* ------------------------------------------ allocate_stock_for_outbound
\* WHERE product_id = %s AND location_id = %s AND available_quantity > 0
OutboundEligible(ls, p, loc) ==
    {i \in DOMAIN ls : /\ ls[i].product_id = p
                       /\ ls[i].location_id = loc
                       /\ ls[i].available_quantity > 0}

RECURSIVE OutboundWalk(_, _, _, _)
OutboundWalk(ls, ids, remaining, loc) ==
    IF ids = <<>> \/ remaining <= 0 THEN <<>>
    ELSE LET lot == Head(ids)
             lot_available == ls[lot].available_quantity
         IN IF lot_available >= remaining
            THEN <<[lot_id |-> lot, allocated_quantity |-> remaining, location_id |-> loc]>>
                 \o OutboundWalk(ls, Tail(ids), 0, loc)
            ELSE <<[lot_id |-> lot, allocated_quantity |-> lot_available, location_id |-> loc]>>
                 \o OutboundWalk(ls, Tail(ids), remaining - lot_available, loc)

InsufficientTotalOrEqual(total_available, required) == total_available <= required

\* if total_available < required_quantity
InsufficientTotal(total_available, required) == total_available < required

\* lines 3228-3270: what the call makes of the rows the query returned
AllocateFrom(ls, available_lots, required, loc) ==
    IF available_lots = <<>>
    THEN [error |-> "no_stock", allocations |-> <<>>]
    ELSE IF InsufficientTotal(TotalAvailable(ls, available_lots), required)
    THEN [error |-> "insufficient", allocations |-> <<>>]
    ELSE [error |-> "none",
          allocations |-> OutboundWalk(ls, available_lots, required, loc)]

allocate_stock_for_outbound(ls, p, loc, required) ==
    AllocateFrom(ls, OrderByCreatedAt(ls, OutboundEligible(ls, p, loc)), required, loc)

\* --------------------------- reserve_stock_for_sales_order_any_location
\* every location of the model is active (locations.is_active = true)
ReserveEligible(ls, p) ==
    {i \in DOMAIN ls : ls[i].product_id = p /\ ls[i].available_quantity > 0}

RECURSIVE ReservationWalk(_, _, _)
ReservationWalk(ls, ids, remaining) ==
    IF ids = <<>> \/ remaining <= 0 THEN <<>>
    ELSE LET lot == Head(ids)
             allocate_from_lot == IF ls[lot].available_quantity <= remaining
                                  THEN ls[lot].available_quantity ELSE remaining
         IN <<[lot_id |-> lot, allocated_quantity |-> allocate_from_lot,
               location_id |-> ls[lot].location_id]>>
            \o ReservationWalk(ls, Tail(ids), remaining - allocate_from_lot)

\* lines 3287-3324: the plan, or the error the read of the lots leads to
PlanFrom(ls, available_stock, required) ==
    IF available_stock = <<>>
    THEN [error |-> "no_stock", reservations |-> <<>>]
    ELSE IF TotalAvailable(ls, available_stock) < required
    THEN [error |-> "insufficient", reservations |-> <<>>]
    ELSE [error |-> "none",
          reservations |-> ReservationWalk(ls, available_stock, required)]

ReservationPlan(ls, p, required) == PlanFrom(ls, OrderByCreatedAt(ls, ReserveEligible(ls, p)), required)

\* WHERE id = %s AND available_quantity >= %s
ReservePredicate(l, q) == l.available_quantity >= q

ReserveUpdateAvailableOnly(l, q) == [l EXCEPT !.available_quantity = @ - q]

\* SET available_quantity = available_quantity - %s,
\*     committed_quantity = committed_quantity + %s
ReserveUpdate(l, q) ==
    [l EXCEPT !.available_quantity = @ - q, !.committed_quantity = @ + q]

\* balance_quantity is update_result['available_quantity'] of the UPDATE
ReserveTxn(r, so, balance) ==
    TxnRow(r.lot_id, "ADJUSTMENT", r.allocated_quantity, r.location_id,
           "SALES_ORDER", so, "RESERVE", balance)

\* lines 3326-3356: stops at the first lot whose UPDATE matches no row and
\* keeps what the earlier statements committed
RECURSIVE ApplyReservations(_, _, _)
ApplyReservations(db, plan, so) ==
    IF plan = <<>> THEN [db |-> db, error |-> "none"]
    ELSE LET r == Head(plan) IN
         IF ReservePredicate(db.lots[r.lot_id], r.allocated_quantity)
         THEN LET ls2 == [db.lots EXCEPT ![r.lot_id] = ReserveUpdate(@, r.allocated_quantity)]
              IN ApplyReservations(
                     Db(ls2, Append(db.txns,
                                    ReserveTxn(r, so, ls2[r.lot_id].available_quantity))),
                     Tail(plan), so)
         ELSE [db |-> db, error |-> "reserve_failed"]

reserve_stock_for_sales_order_any_location(db, so, p, required) ==
    LET plan == ReservationPlan(db.lots, p, required) IN
    IF plan.error # "none" THEN [db |-> db, error |-> plan.error]
    ELSE ApplyReservations(db, plan.reservations, so)

\* ------------------------------------- unreserve_stock_for_sales_order
IsReserveOfAnyType(t, so) == t.reference_id = so

IsReserveOf(t, so) ==
    /\ t.reference_id = so
    /\ t.reservation_type = "RESERVE"
    /\ t.transaction_type = "ADJUSTMENT"
    /\ t.reference_type = "SALES_ORDER"

ReservationTransactions(tx, so) == SelectSeq(tx, LAMBDA t : IsReserveOf(t, so))

UnreservePredicateAlways(l, q) == TRUE

UnreservePredicateStrict(l, q) == l.committed_quantity > q

\* WHERE id = %s AND committed_quantity >= %s
UnreservePredicate(l, q) == l.committed_quantity >= q

UnreserveUpdateRelocating(l, q) ==
    [l EXCEPT !.available_quantity = @ + q, !.committed_quantity = @ - q,
              !.location_id = FirstActiveLocation]

\* SET available_quantity = available_quantity + %s,
\*     committed_quantity = committed_quantity - %s
UnreserveUpdate(l, q) ==
    [l EXCEPT !.available_quantity = @ + q, !.committed_quantity = @ - q]

\* the INSERT passes update_result['id'], the lot id, as location_id
RECURSIVE ApplyUnreservations(_, _, _)
ApplyUnreservations(db, rows, so) ==
    IF rows = <<>> THEN db
    ELSE LET lot == Head(rows).lot_id
             q == Head(rows).quantity
         IN IF UnreservePredicate(db.lots[lot], q)
            THEN LET ls2 == [db.lots EXCEPT ![lot] = UnreserveUpdate(@, q)]
                 IN ApplyUnreservations(Db(ls2, Append(db.txns,
                        TxnRow(lot, "ADJUSTMENT", q, lot, "SALES_ORDER", so, "UNRESERVE",
                               ls2[lot].available_quantity))),
                                        Tail(rows), so)
            ELSE ApplyUnreservations(db, Tail(rows), so)

unreserve_stock_for_sales_order(db, so) ==
    ApplyUnreservations(db, ReservationTransactions(db.txns, so), so)

\* has every RESERVE row of the order been offset by an UNRESERVE row on its lot
ReservedOn(tx, so, lot) ==
    SumQuantity(SelectSeq(tx, LAMBDA t : IsReserveOf(t, so) /\ t.lot_id = lot))

\* what a call of Unreserve on an already released order did
UnreserveObs(db, so) ==
    IF ~(/\ ReservationTransactions(db.txns, so) # <<>>
         /\ \A lot \in DOMAIN db.lots :
               SumQuantity(SelectSeq(db.txns,
                                     LAMBDA t : /\ t.reference_type = "SALES_ORDER"
                                                /\ t.reference_id = so
                                                /\ t.reservation_type = "UNRESERVE"
                                                /\ t.lot_id = lot))
                   >= ReservedOn(db.txns, so, lot))
    THEN "none"
    ELSE IF unreserve_stock_for_sales_order(db, so) = db THEN "noop"
    ELSE "changed"

\* ---------------------------------------------------- create_sales_order
\* lines 2264-2284: every item is reserved, the errors are collected
RECURSIVE ReserveItems(_, _, _)
ReserveItems(db, so, items) ==
    IF items = <<>> THEN [db |-> db, reservation_errors |-> <<>>]
    ELSE LET r == reserve_stock_for_sales_order_any_location(
                      db, so, Head(items).product_id, Head(items).weight_kg)
             rest == ReserveItems(r.db, so, Tail(items))
         IN [db |-> rest.db,
             reservation_errors |->
                 (IF r.error # "none" THEN <<r.error>> ELSE <<>>) \o rest.reservation_errors]

\* the order row and its items are committed only without reservation
\* errors; the reservation statements were committed one by one.
\* lines 2193-2198 replace a missing location_id by the first active
\* location; no later statement of the method reads it, and every item is
\* reserved with reserve_stock_for_sales_order_any_location (2273-2276)
create_sales_order(db, os, items, day, location_id) ==
    LET location == IF location_id = NoLocation THEN FirstActiveLocation ELSE location_id
        so == Len(os) + 1
        so_number == MintSoNumber(os, day)
        r == ReserveItems(db, so, items)
    IN IF r.reservation_errors # <<>>
       THEN [db |-> r.db, orders |-> Append(os, RolledBackOrder), ok |-> FALSE]
       ELSE [db |-> r.db, orders |-> Append(os, OrderRow(items, so_number)), ok |-> TRUE]

\* --------------------------------------------------- create_sales_challan
\* SELECT DISTINCT il.location_id ... of the RESERVE rows of the order on
\* lots of the product
ReservedLocations(db, so, p) ==
    {db.lots[db.txns[i].lot_id].location_id :
        i \in {j \in DOMAIN db.txns : /\ IsReserveOf(db.txns[j], so)
                                       /\ db.lots[db.txns[j].lot_id].product_id = p}}

\* the first row of a DISTINCT query without ORDER BY: any of the rows
FirstOf(S, want) == IF want \in S THEN want ELSE CHOOSE x \in S : TRUE

RECURSIVE OutboundAllocations(_, _, _)
OutboundAllocations(db, allocations, challanItem) ==
    IF allocations = <<>> THEN db
    ELSE LET a == Head(allocations) IN
         OutboundAllocations(
             record_inventory_transaction(db, a.lot_id, "OUTBOUND", a.allocated_quantity,
                                          a.location_id, "SALES_CHALLAN", challanItem).db,
             Tail(allocations), challanItem)

\* lines 2580-2654; st = [db, items (sales_challan_items), location_id]
RECURSIVE ChallanItemsLoop(_, _, _, _, _, _)
ChallanItemsLoop(st, sc, source, items, k, pref) ==
    IF k > Len(items) THEN st
    ELSE LET item == items[k]
             challanItem == Len(st.items) + 1
             rows == Append(st.items, [sc_id |-> sc, product_id |-> item.product_id,
                                       weight_kg |-> item.weight_kg])
             reserved == IF source # 0
                         THEN ReservedLocations(st.db, source, item.product_id)
                         ELSE {}
             location_id == IF reserved # {} THEN FirstOf(reserved, pref[k])
                            ELSE st.location_id
             allocation_result == allocate_stock_for_outbound(
                                      st.db.lots, item.product_id, location_id, item.weight_kg)
             db2 == IF allocation_result.error # "none" THEN st.db
                    ELSE OutboundAllocations(st.db, allocation_result.allocations, challanItem)
         IN ChallanItemsLoop([db |-> db2, items |-> rows, location_id |-> location_id],
                             sc, source, items, k + 1, pref)

\* the default dispatch location of create_sales_challan (location_id=1)
DispatchLocation == 1

\* lines 2558-2565: the INSERT has no column for the source order
ChallanRow == [status |-> "New", is_deleted |-> FALSE]

\* lines 2567-2568: without sc_result the call returns an error
create_sales_challan(db, chs, chItems, items, location_id, source, pref, fault) ==
    IF fault = "challan_insert"
    THEN [db |-> db, challans |-> chs, challanItems |-> chItems, obs |-> "none",
          error |-> TRUE]
    ELSE
    LET sc == Len(chs) + 1
        db1 == IF source # 0 THEN unreserve_stock_for_sales_order(db, source) ELSE db
        st == ChallanItemsLoop([db |-> db1, items |-> chItems, location_id |-> location_id],
                               sc, source, items, 1, pref)
    IN [db |-> st.db, challans |-> Append(chs, ChallanRow), challanItems |-> st.items,
        obs |-> IF source # 0 THEN UnreserveObs(db, source) ELSE "none",
        error |-> FALSE]

\* ------------------------------------------ convert_sales_order_to_challan
\* WHERE id = %s AND is_deleted = FALSE AND converted_to_challan = FALSE

convert_sales_order_to_challan(db, os, chs, chItems, so, pref, fault) ==
    IF \/ ~(/\ so \in DOMAIN os
             /\ os[so].present /\ ~os[so].is_deleted /\ ~os[so].converted_to_challan)
       \/ os[so].items = <<>>
    THEN [db |-> db, orders |-> os, challans |-> chs, challanItems |-> chItems,
          ok |-> FALSE, obs |-> "none"]
    ELSE LET c == create_sales_challan(db, chs, chItems, os[so].items, 1, so, pref, fault)
         IN
         \* lines 2966-2967 and 2978-2979: the two error returns after the lookups
         IF c.error \/ fault = "order_update"
         THEN [db |-> c.db, orders |-> os, challans |-> c.challans,
               challanItems |-> c.challanItems, ok |-> FALSE, obs |-> c.obs]
         ELSE
         [db |-> c.db,
          orders |-> [os EXCEPT ![so].converted_to_challan = TRUE, ![so].status = "Delivered"],
          challans |-> c.challans, challanItems |-> c.challanItems,
          ok |-> TRUE, obs |-> c.obs]

\* ------------------------------------------------ update_sales_order_status
Statuses == {"New", "Delivered", "Cancelled"}

\* lines 2847-2870: UPDATE available_quantity = available_quantity - q, then
\* the OUTBOUND row with the balance read back from the lot
RECURSIVE DeliverAllocations(_, _, _, _)
DeliverAllocations(db, allocations, loc, so) ==
    IF allocations = <<>> THEN db
    ELSE LET a == Head(allocations)
             ls2 == [db.lots EXCEPT ![a.lot_id].available_quantity = @ - a.allocated_quantity]
             t == TxnRow(a.lot_id, "OUTBOUND", a.allocated_quantity, loc,
                         "SALES_ORDER_DELIVERY", so, "NULL", ls2[a.lot_id].available_quantity)
         IN DeliverAllocations(Db(ls2, Append(db.txns, t)), Tail(allocations), loc, so)

\* lines 2813-2870; st = [db, obs]
\* SELECT DISTINCT il.location_id ... LIMIT 1 over the RESERVE rows of the order
RECURSIVE DeliverItems(_, _, _, _, _)
DeliverItems(st, so, items, k, pref) ==
    IF k > Len(items) THEN st
    ELSE LET item == items[k]
             db1 == unreserve_stock_for_sales_order(st.db, so)
             obs == IF st.obs = "changed" \/ UnreserveObs(st.db, so) = "changed"
                    THEN "changed"
                    ELSE IF st.obs = "noop" \/ UnreserveObs(st.db, so) = "noop"
                    THEN "noop"
                    ELSE "none"
             reserved == {db1.lots[db1.txns[i].lot_id].location_id :
                             i \in {j \in DOMAIN db1.txns : IsReserveOf(db1.txns[j], so)}}
             location_id == IF reserved # {} THEN FirstOf(reserved, pref[k])
                            ELSE FirstActiveLocation
             allocation_result == allocate_stock_for_outbound(
                                      db1.lots, item.product_id, location_id, item.weight_kg)
             db2 == IF allocation_result.error # "none" THEN db1
                    ELSE DeliverAllocations(db1, allocation_result.allocations, location_id, so)
         IN DeliverItems([db |-> db2, obs |-> obs], so, items, k + 1, pref)

update_sales_order_status(db, os, so, new_status, pref) ==
    IF ~(so \in DOMAIN os /\ os[so].present /\ ~os[so].is_deleted)
    THEN [db |-> db, orders |-> os, ok |-> FALSE, obs |-> "none"]
    ELSE LET current_status == os[so].status
             st == IF new_status = "Cancelled" /\ current_status # "Cancelled"
                   THEN [db |-> unreserve_stock_for_sales_order(db, so),
                         obs |-> UnreserveObs(db, so)]
                   ELSE IF new_status = "Delivered" /\ current_status = "New"
                   THEN DeliverItems([db |-> db, obs |-> "none"], so, os[so].items, 1, pref)
                   ELSE [db |-> db, obs |-> "none"]
         IN [db |-> st.db, orders |-> [os EXCEPT ![so].status = new_status],
             ok |-> TRUE, obs |-> st.obs]

\* ------------------------------------------------------ update_sales_order
\* updates = [status, hasItems, items]; status "-" when the request has no
\* 'status' key, hasItems whether it has an 'items' key
update_sales_order(os, so, updates) ==
    LET hasFields == updates.status # "-"
        hasItems == updates.hasItems
        found == so \in DOMAIN os /\ os[so].present
    IN IF hasFields /\ ~(found /\ ~os[so].is_deleted)
       THEN [orders |-> os, ok |-> FALSE]
       ELSE LET os1 == IF hasFields THEN [os EXCEPT ![so].status = updates.status] ELSE os
                os2 == IF hasItems /\ found THEN [os1 EXCEPT ![so].items = updates.items]
                       ELSE os1
            IN [orders |-> os2, ok |-> TRUE]

\* ------------------------------------------------------ delete_sales_order
delete_sales_order(os, so) ==
    IF ~(so \in DOMAIN os /\ os[so].present /\ ~os[so].is_deleted)
    THEN [orders |-> os, ok |-> FALSE]
    ELSE [orders |-> [os EXCEPT ![so].is_deleted = TRUE], ok |-> TRUE]

\* ------------------------------------------------------- log_audit_event
\* INSERT INTO audit_log (action, entity_type, entity_id, user_id, details)
log_audit_event(al, action, entity_type, entity_id) ==
    Append(al, [action |-> action, entity_type |-> entity_type, entity_id |-> entity_id])

\* the id of the goods_receipts row of the call: every receipt of the
\* ledger logged its creation, so the SERIAL stands one past the log
GrnId(al) == Len(al) + 1

\* ================================================================ the ledger
NoLast ==
    [op |-> "init", so |-> 0, ok |-> TRUE, preLots |-> <<>>, preNtx |-> 0,
     preOrder |-> RolledBackOrder, preNch |-> 0, chained |-> FALSE,
     chainLots |-> <<>>, chainNtx |-> 0, obs |-> "none", qty |-> 0, preNaudit |-> 0,
     preNgi |-> 0, location_id |-> NoLocation]

Record(op, so, ok, obs) ==
    [op |-> op, so |-> so, ok |-> ok, preLots |-> lots, preNtx |-> Len(txns),
     preOrder |-> IF so \in DOMAIN orders THEN orders[so] ELSE RolledBackOrder,
     preNch |-> Len(challans), chained |-> FALSE, chainLots |-> <<>>, chainNtx |-> 0,
     obs |-> obs, qty |-> 0, preNaudit |-> Len(audit_log),
     preNgi |-> Len(grnItems), location_id |-> NoLocation]

\* no read-only call observed
NoAlloc == [fn |-> "none"]

Init ==
    /\ lots = <<>>
    /\ txns = <<>>
    /\ orders = <<>>
    /\ challans = <<>>
    /\ challanItems = <<>>
    /\ last = NoLast
    /\ nOps = 0
    /\ calls = <<>>
    /\ alloc = NoAlloc
    /\ audit_log = <<>>
    /\ purchase_orders = <<>>
    /\ grnItems = <<>>

Prefs == [1..2 -> Locations]

\* products are interchangeable: the first receipt of a product not yet in
\* stock is a receipt of the least such product
ReceivableProducts ==
    {p \in Products : \A q \in Products :
        q < p => \E i \in DOMAIN lots : lots[i].product_id = q}

CreateGRN ==
    /\ nOps < MaxOps
    /\ Len(lots) < MaxLots
    /\ \E loc \in Locations, p \in ReceivableProducts, w \in GrnQtys :
         LET st == create_grn([db |-> Db(lots, txns), grnItems |-> grnItems],
                              GrnId(audit_log), loc, <<Item(p, w)>>, NoFaults) IN
         /\ lots' = st.db.lots
         /\ txns' = st.db.txns
         /\ grnItems' = st.grnItems
         /\ last' = [Record("create_grn", 0, TRUE, "none") EXCEPT !.qty = w]
    /\ audit_log' = log_audit_event(audit_log, "CREATE", "GRN", GrnId(audit_log))
    /\ nOps' = nOps + 1
    /\ UNCHANGED <<orders, challans, challanItems, calls, alloc, purchase_orders>>

CreateSalesOrder ==
    /\ nOps < MaxOps
    /\ Len(orders) < MaxOrders
    /\ \E items \in ItemSeqs(OrderQtys) \cup {<<>>},
          location_id \in Locations \cup {NoLocation} :
         LET r == create_sales_order(Db(lots, txns), orders, items, Today, location_id) IN
         /\ lots' = r.db.lots
         /\ txns' = r.db.txns
         /\ orders' = r.orders
         /\ last' = [Record("create_sales_order", Len(orders) + 1, r.ok, "none")
                        EXCEPT !.location_id = location_id]
    /\ nOps' = nOps + 1
    /\ UNCHANGED <<challans, challanItems, calls, alloc, audit_log, grnItems, purchase_orders>>

UpdateSalesOrderStatus ==
    /\ nOps < MaxOps
    /\ \E so \in DOMAIN orders, new_status \in Statuses, pref \in Prefs :
         LET r == update_sales_order_status(Db(lots, txns), orders, so, new_status, pref)
             rec == Record(IF new_status = "Cancelled" THEN "cancel"
                           ELSE IF new_status = "Delivered" THEN "deliver" ELSE "renew",
                           so, r.ok, r.obs)
             chain == /\ new_status = "Cancelled"
                      /\ last.op = "create_sales_order" /\ last.so = so /\ last.ok
         IN
         /\ lots' = r.db.lots
         /\ txns' = r.db.txns
         /\ orders' = r.orders
         /\ last' = IF chain
                     THEN [rec EXCEPT !.chained = TRUE, !.chainLots = last.preLots,
                                      !.chainNtx = last.preNtx]
                     ELSE rec
    /\ nOps' = nOps + 1
    /\ UNCHANGED <<challans, challanItems, calls, alloc, audit_log, grnItems, purchase_orders>>

\* execute_query returns None when a statement fails on every attempt
\* (lines 123-190); fault names the statement of the call that does
ConvertSalesOrder ==
    /\ nOps < MaxOps
    /\ Len(challans) < MaxChallans
    /\ \E so \in DOMAIN orders, pref \in Prefs, fault \in {"none", "challan_insert", "order_update"} :
         LET r == convert_sales_order_to_challan(Db(lots, txns), orders, challans,
                                                 challanItems, so, pref, fault) IN
         /\ lots' = r.db.lots
         /\ txns' = r.db.txns
         /\ orders' = r.orders
         /\ challans' = r.challans
         /\ challanItems' = r.challanItems
         /\ last' = Record("convert", so, r.ok, r.obs)
    /\ nOps' = nOps + 1
    /\ UNCHANGED <<calls, alloc, audit_log, grnItems, purchase_orders>>

CreateSalesChallan ==
    /\ nOps < MaxOps
    /\ Len(challans) < MaxChallans
    /\ \E items \in ItemSeqs(OrderQtys), fault \in {"none", "challan_insert"} :
         LET r == create_sales_challan(Db(lots, txns), challans, challanItems, items,
                                       1, 0, [k \in 1..2 |-> 1], fault) IN
         /\ lots' = r.db.lots
         /\ txns' = r.db.txns
         /\ challans' = r.challans
         /\ challanItems' = r.challanItems
         /\ last' = Record("create_sales_challan", 0, ~r.error, "none")
    /\ nOps' = nOps + 1
    /\ UNCHANGED <<orders, calls, alloc, audit_log, grnItems, purchase_orders>>

UpdateSalesOrder ==
    /\ nOps < MaxOps
    /\ \E so \in DOMAIN orders,
          st \in Statuses \cup {"-"},
          hasItems \in BOOLEAN,
          its \in {<<Item(1, 1)>>} :
         /\ (st = "-") = hasItems
         /\ LET r == update_sales_order(orders, so,
                        [status |-> st, hasItems |-> hasItems, items |-> its]) IN
            /\ orders' = r.orders
            /\ last' = Record("update_sales_order", so, r.ok, "none")
    /\ nOps' = nOps + 1
    /\ UNCHANGED <<lots, txns, challans, challanItems, calls, alloc, audit_log, grnItems, purchase_orders>>

DeleteSalesOrder ==
    /\ nOps < MaxOps
    /\ \E so \in DOMAIN orders :
         LET r == delete_sales_order(orders, so) IN
         /\ orders' = r.orders
         /\ last' = Record("delete_sales_order", so, r.ok, "none")
    /\ nOps' = nOps + 1
    /\ UNCHANGED <<lots, txns, challans, challanItems, calls, alloc, audit_log, grnItems, purchase_orders>>

Next ==
    \/ CreateGRN
    \/ CreateSalesOrder
    \/ UpdateSalesOrderStatus
    \/ ConvertSalesOrder
    \/ CreateSalesChallan
    \/ UpdateSalesOrder
    \/ DeleteSalesOrder

Spec == Init /\ [][Next]_vars

\* a warehouse that has received its first goods: the state create_grn
\* leaves for one line of product 1
InitStocked ==
    /\ \E loc \in Locations, w \in GrnQtys :
         LET st == create_grn([db |-> Db(<<>>, <<>>), grnItems |-> <<>>],
                              GrnId(<<>>), loc, <<Item(1, w)>>, NoFaults) IN
         /\ lots = st.db.lots
         /\ txns = st.db.txns
         /\ grnItems = st.grnItems
    /\ audit_log = log_audit_event(<<>>, "CREATE", "GRN", GrnId(<<>>))
    /\ orders = <<>>
    /\ challans = <<>>
    /\ challanItems = <<>>
    /\ last = NoLast
    /\ nOps = 0
    /\ calls = <<>>
    /\ alloc = NoAlloc
    /\ purchase_orders = <<>>

\* the life of sales orders over the received stock: orders are created and
\* their status is updated
NextOrders ==
    \/ CreateSalesOrder
    \/ UpdateSalesOrderStatus

SpecOrders == InitStocked /\ [][NextOrders]_vars

\* ===================================== concurrent create_sales_order calls
\* Two requests run create_sales_order on their own threads.  Every
\* execute_query statement commits by itself; the sales_orders row and the
\* item rows sit on the call's own connection until commit or rollback.
Callers == {1, 2}

Days == {1, 2}

NewCall(w, day) ==
    [pc |-> "mint", items |-> <<Item(1, w)>>, day |-> day,
     so_number |-> <<"SO", 0, 0>>, so |-> 0, k |-> 1, plan |-> <<>>, j |-> 1,
     balance |-> 0, errors |-> <<>>, result |-> "running"]

\* the stock the two calls compete for, as goods receipts leave it
\* no receipt yet
ConcStocks ==
    LET first == create_grn([db |-> Db(<<>>, <<>>), grnItems |-> <<>>], 1, 1, <<Item(1, 2)>>, NoFaults) IN
    {first} \cup {create_grn(first, 2, loc, <<Item(1, 2)>>, NoFaults) : loc \in Locations}

InitConc ==
    /\ \E stock \in ConcStocks :
          /\ lots = stock.db.lots
          /\ txns = stock.db.txns
          /\ grnItems = stock.grnItems
    /\ orders = <<>>
    /\ challans = <<>>
    /\ challanItems = <<>>
    /\ last = NoLast
    /\ nOps = 0
    /\ calls \in [Callers -> {NewCall(w, day) : w \in {3, 5}, day \in Days}]
    /\ alloc = NoAlloc
    /\ audit_log = <<>>
    /\ purchase_orders = <<>>

\* after an item's reservation returned: the next item, or the end of the loop
NextItem(c, error) ==
    [c EXCEPT !.errors = IF error = "none" THEN @ ELSE Append(@, error),
              !.k = @ + 1, !.plan = <<>>, !.j = 1,
              !.pc = IF c.k = Len(c.items) THEN "finish" ELSE "read"]

\* lines 2200-2230: today, the SELECT of the day's numbers, the free id
MintNumber(c) ==
    /\ calls[c].pc = "mint"
    /\ calls' = [calls EXCEPT ![c].so_number = MintSoNumber(orders, calls[c].day),
                              ![c].pc = "insert"]
    /\ UNCHANGED <<lots, txns, orders, challans, challanItems, last, nOps, alloc, audit_log, grnItems, purchase_orders>>

\* lines 2246-2260: INSERT INTO sales_orders on the call's connection.
\* so_number is UNIQUE: the statement waits while another open transaction
\* holds the same number, and raises once a committed row holds it
\* (rollback, 'Database error occurred'); the SERIAL id is used up either way
\* the call holds an uncommitted sales_orders row
InsertSalesOrder(c) ==
    /\ calls[c].pc = "insert"
    /\ ~\E d \in Callers \ {c} : /\ calls[d].pc \in {"read", "update", "log", "finish"}
                                 /\ calls[d].so_number = calls[c].so_number
    /\ orders' = Append(orders, RolledBackOrder)
    /\ calls' = IF calls[c].so_number \in CommittedNumbers(orders)
                THEN [calls EXCEPT ![c].pc = "done", ![c].result = "db_error"]
                ELSE [calls EXCEPT ![c].so = Len(orders) + 1, ![c].k = 1,
                                   ![c].pc = "read"]
    /\ UNCHANGED <<lots, txns, challans, challanItems, last, nOps, alloc, audit_log, grnItems, purchase_orders>>

\* lines 3288-3324: the SELECT of the product's lots and the plan made of it
ReadAvailableStock(c) ==
    /\ calls[c].pc = "read"
    /\ LET item == calls[c].items[calls[c].k]
           plan == ReservationPlan(lots, item.product_id, item.weight_kg)
       IN calls' = [calls EXCEPT ![c] =
                        IF plan.error # "none" THEN NextItem(@, plan.error)
                        ELSE [@ EXCEPT !.plan = plan.reservations, !.j = 1,
                                       !.pc = "update"]]
    /\ UNCHANGED <<lots, txns, orders, challans, challanItems, last, nOps, alloc, audit_log, grnItems, purchase_orders>>

\* lines 3332-3343: the guarded UPDATE of one planned lot
UpdateLot(c) ==
    /\ calls[c].pc = "update"
    /\ LET r == calls[c].plan[calls[c].j] IN
       IF ReservePredicate(lots[r.lot_id], r.allocated_quantity)
       THEN /\ lots' = [lots EXCEPT ![r.lot_id] = ReserveUpdate(@, r.allocated_quantity)]
            /\ calls' = [calls EXCEPT ![c].balance = lots'[r.lot_id].available_quantity,
                                      ![c].pc = "log"]
       ELSE /\ lots' = lots
            /\ calls' = [calls EXCEPT ![c] = NextItem(@, "reserve_failed")]
    /\ UNCHANGED <<txns, orders, challans, challanItems, last, nOps, alloc, audit_log, grnItems, purchase_orders>>

\* lines 3345-3356: the RESERVE row of the lot just updated
LogReservation(c) ==
    /\ calls[c].pc = "log"
    /\ txns' = Append(txns, ReserveTxn(calls[c].plan[calls[c].j], calls[c].so,
                                       calls[c].balance))
    /\ calls' = [calls EXCEPT ![c] =
                     IF @.j = Len(@.plan) THEN NextItem(@, "none")
                     ELSE [@ EXCEPT !.j = @ + 1, !.pc = "update"]]
    /\ UNCHANGED <<lots, orders, challans, challanItems, last, nOps, alloc, audit_log, grnItems, purchase_orders>>

\* lines 2287-2303: rollback of the order row on any reservation error,
\* commit otherwise
FinishCall(c) ==
    /\ calls[c].pc = "finish"
    /\ IF calls[c].errors # <<>>
       THEN /\ orders' = orders
            /\ calls' = [calls EXCEPT ![c].pc = "done",
                                      ![c].result = calls[c].errors[1]]
       ELSE /\ orders' = [orders EXCEPT ![calls[c].so] =
                              OrderRow(calls[c].items, calls[c].so_number)]
            /\ calls' = [calls EXCEPT ![c].pc = "done", ![c].result = "ok"]
    /\ UNCHANGED <<lots, txns, challans, challanItems, last, nOps, alloc, audit_log, grnItems, purchase_orders>>

NextConc ==
    \E c \in Callers :
        \/ MintNumber(c)
        \/ InsertSalesOrder(c)
        \/ ReadAvailableStock(c)
        \/ UpdateLot(c)
        \/ LogReservation(c)
        \/ FinishCall(c)

SpecConc == InitConc /\ [][NextConc]_vars

\* ============================================== the allocators on any lots
\* allocate_stock_for_outbound and the planning half of
\* reserve_stock_for_sales_order_any_location only read inventory_lots.
\* created_at is the time of the insert, so lots received by concurrent
\* requests in the same clock tick carry the same created_at.
MaxAllocLots == 2

RequiredQtys == 1..4

AllocTables ==
    UNION {{t \in [1..n -> UNION {{LotRow(pr, loc, w, id, now) :
                                       pr \in Products, loc \in Locations,
                                       w \in 0..2, now \in {1, 2}}
                                   : id \in 1..n}] :
               \A id \in 1..n : t[id].grn_item_id = id}
           : n \in 1..MaxAllocLots}

InitAlloc ==
    /\ lots \in AllocTables
    /\ txns = <<>>
    /\ orders = <<>>
    /\ challans = <<>>
    /\ challanItems = <<>>
    /\ last = NoLast
    /\ nOps = 0
    /\ calls = <<>>
    /\ alloc = NoAlloc
    /\ audit_log = <<>>
    /\ purchase_orders = <<>>
    /\ grnItems = <<>>

\* ORDER BY created_at ASC: the rows sorted by created_at, rows of equal
\* created_at in whatever order the database returns them
QueryResults(ls, S) ==
    {rows \in [1..Cardinality(S) -> S] :
        \A i, j \in 1..Cardinality(S) :
            i < j => /\ rows[i] # rows[j]
                     /\ ls[rows[i]].created_at <= ls[rows[j]].created_at}

AllocateStockForOutbound ==
    /\ \E pr \in Products, loc \in Locations, required \in RequiredQtys :
         \E rows \in QueryResults(lots, OutboundEligible(lots, pr, loc)) :
            LET r == AllocateFrom(lots, rows, required, loc) IN
            alloc' = [fn |-> "allocate_stock_for_outbound", product_id |-> pr,
                      location_id |-> loc, required |-> required,
                      eligible |-> OutboundEligible(lots, pr, loc),
                      error |-> r.error, plan |-> r.allocations]
    /\ UNCHANGED <<lots, txns, orders, challans, challanItems, last, nOps, calls, audit_log, grnItems, purchase_orders>>

PlanReservation ==
    /\ \E pr \in Products, required \in RequiredQtys :
         \E rows \in QueryResults(lots, ReserveEligible(lots, pr)) :
            LET r == PlanFrom(lots, rows, required) IN
            alloc' = [fn |-> "reserve_stock_for_sales_order_any_location",
                      product_id |-> pr, location_id |-> 0, required |-> required,
                      eligible |-> ReserveEligible(lots, pr),
                      error |-> r.error, plan |-> r.reservations]
    /\ UNCHANGED <<lots, txns, orders, challans, challanItems, last, nOps, calls, audit_log, grnItems, purchase_orders>>

NextAlloc == AllocateStockForOutbound \/ PlanReservation

SpecAlloc == InitAlloc /\ [][NextAlloc]_vars

\* ================================================= minting on any numbers
\* The five creations mint with the same block: read the numbers of the
\* prefix and day, take the first free sequential id.
MaxSeq == 3

\* the numbers already in the table of one prefix, with rows of another
\* day and rows of another document next to them
InitMint ==
    /\ lots = <<>>
    /\ txns = <<>>
    /\ orders = <<>>
    /\ challans = <<>>
    /\ challanItems = <<>>
    /\ last = NoLast
    /\ nOps = 0
    /\ calls = <<>>
    /\ alloc \in {[fn |-> "rows", existing |-> e] : e \in
          {a \cup b \cup c :
              a \in SUBSET {DocNumber("SO", 1, n) : n \in 0..MaxSeq},
              b \in SUBSET {DocNumber("SO", 2, 1)},
              c \in SUBSET {DocNumber("GRN", 1, 1), DocNumber("GRN", 1, 2)}}}
    /\ audit_log = <<>>
    /\ purchase_orders = <<>>
    /\ grnItems = <<>>

MintDocument ==
    /\ \E prefix \in {"GRN", "SO", "SC", "PO", "LOT"}, day \in Days :
         alloc' = [fn |-> "mint", existing |-> alloc.existing, prefix |-> prefix,
                   day |-> day,
                   number |-> MintDocNumber(alloc.existing, prefix, day)]
    /\ UNCHANGED <<lots, txns, orders, challans, challanItems, last, nOps, calls, audit_log, grnItems, purchase_orders>>

SpecMint == InitMint /\ [][MintDocument]_vars

\* ------------------------------------------------------- create_job_order
\* the job_orders rows of two days as earlier creations numbered them, some
\* of them with the is_deleted flag of the table set
InitJo ==
    /\ lots = <<>>
    /\ txns = <<>>
    /\ orders = <<>>
    /\ challans = <<>>
    /\ challanItems = <<>>
    /\ last = NoLast
    /\ nOps = 0
    /\ calls = <<>>
    /\ alloc \in {[fn |-> "rows", existing |-> a \cup b, deleted |-> d] :
          a \in {{DocNumber("JO", 1, k) : k \in 1..n} : n \in 0..MaxSeq},
          b \in SUBSET {DocNumber("JO", 2, 1)},
          d \in SUBSET {DocNumber("JO", 1, n) : n \in 1..MaxSeq}}
    /\ alloc.deleted \subseteq alloc.existing
    /\ audit_log = <<>>
    /\ purchase_orders = <<>>
    /\ grnItems = <<>>

\* lines 3035-3065: SELECT COUNT(*) ... WHERE jo_number LIKE %s AND
\* is_deleted = FALSE, sequential_id = count + 1 (0 + 1 when execute_query
\* returned None), then the INSERT, which the UNIQUE jo_number rejects
CreateJobOrder ==
    /\ alloc.fn \in {"rows", "create_job_order"}
    /\ \E day \in Days, count_result \in {"row", "None"} :
         LET count == Cardinality({x \in alloc.existing \ alloc.deleted : x[2] = day})
             sequential_id == (IF count_result = "row" THEN count ELSE 0) + 1
             jo_number == DocNumber("JO", day, sequential_id)
             jo_result == IF jo_number \in alloc.existing THEN "None" ELSE "row"
         IN /\ sequential_id <= MaxSeq + 1
            /\ alloc' = [fn |-> "create_job_order",
                         existing |-> IF jo_result = "row"
                                      THEN alloc.existing \cup {jo_number}
                                      ELSE alloc.existing,
                         deleted |-> alloc.deleted, before |-> alloc.existing,
                         count_result |-> count_result,
                         number |-> jo_number, jo_result |-> jo_result]
    /\ UNCHANGED <<lots, txns, orders, challans, challanItems, last, nOps, calls, audit_log, grnItems, purchase_orders>>

SpecJo == InitJo /\ [][CreateJobOrder]_vars

\* ============================ concurrent dispatches, conversions and orders
\* Two requests run on their own threads (threaded server, pooled
\* connections).  Caller 1 creates a challan, directly or by converting a
\* sales order; caller 2 creates a challan or a sales order.  Every
\* execute_query statement is a step of its own: it commits alone and no
\* statement takes a row lock that outlives it.

DispatchQtys == {1, 3}

\* a create_sales_challan call about to insert its challan (its number is
\* minted by a SELECT just before), or the conversion that leads to it, about
\* to select its order; source is the sales order a conversion passes, 0 for
\* a direct creation
ChallanCall(kind, w, source) ==
    [kind |-> kind, pc |-> IF kind = "convert" THEN "order_select" ELSE "sc_insert",
     items |-> <<Item(1, w)>>, day |-> Today,
     so_number |-> <<"SO", 0, 0>>, so |-> source, k |-> 1, plan |-> <<>>, j |-> 1,
     balance |-> 0, errors |-> <<>>, result |-> "running",
     rows |-> <<>>, location_id |-> DispatchLocation, sc |-> 0, challan_item |-> 0]

OrderCall(w) ==
    [kind |-> "order", pc |-> "mint", items |-> <<Item(1, w)>>, day |-> Today,
     so_number |-> <<"SO", 0, 0>>, so |-> 0, k |-> 1, plan |-> <<>>, j |-> 1,
     balance |-> 0, errors |-> <<>>, result |-> "running",
     rows |-> <<>>, location_id |-> 0, sc |-> 0, challan_item |-> 0]

\* what the requests start from: the stock received, and for a conversion
\* the order it converts, created and reserved before the requests begin
DispatchStarts ==
    {[db |-> stock.db, grnItems |-> stock.grnItems, orders |-> <<>>,
      calls |-> <<ChallanCall("challan", w1, 0), second>>] :
        stock \in ConcStocks, w1 \in DispatchQtys,
        second \in {ChallanCall("challan", w, 0) : w \in DispatchQtys}
                   \cup {OrderCall(w) : w \in DispatchQtys}}
    \cup
    {LET r == create_sales_order(stock.db, <<>>, <<Item(1, w1)>>, Today, NoLocation) IN
     [db |-> r.db, grnItems |-> stock.grnItems, orders |-> r.orders,
      calls |-> <<ChallanCall("convert", w1, 1), second>>] :
        stock \in ConcStocks, w1 \in DispatchQtys,
        second \in {ChallanCall("challan", w, 0) : w \in DispatchQtys}
                   \cup {OrderCall(w) : w \in DispatchQtys}
                   \cup {ChallanCall("convert", w, 1) : w \in DispatchQtys}}

InitDispatch ==
    /\ \E s \in DispatchStarts :
          /\ lots = s.db.lots
          /\ txns = s.db.txns
          /\ orders = s.orders
          /\ calls = s.calls
          /\ grnItems = s.grnItems
    /\ challans = <<>>
    /\ challanItems = <<>>
    /\ last = NoLast
    /\ nOps = 0
    /\ alloc = NoAlloc
    /\ audit_log = <<>>
    /\ purchase_orders = <<>>

\* lines 2929-2941: the SELECT of the order (is_deleted = FALSE AND
\* converted_to_challan = FALSE) and of its items
SelectOrder(c) ==
    /\ calls[c].pc = "order_select"
    /\ LET so == calls[c].so
           found == /\ so \in DOMAIN orders
                    /\ orders[so].present /\ ~orders[so].is_deleted
                    /\ ~orders[so].converted_to_challan
                    /\ orders[so].items # <<>>
       IN calls' = [calls EXCEPT ![c] =
                       IF found THEN [@ EXCEPT !.items = orders[so].items, !.pc = "sc_insert"]
                       ELSE [@ EXCEPT !.pc = "done", !.result = "not_found"]]
    /\ UNCHANGED <<lots, txns, orders, challans, challanItems, last, nOps, alloc, audit_log, grnItems, purchase_orders>>

\* lines 2558-2570: INSERT INTO sales_challans
InsertChallan(c) ==
    /\ calls[c].pc = "sc_insert"
    /\ challans' = Append(challans, ChallanRow)
    /\ calls' = [calls EXCEPT ![c].sc = Len(challans) + 1,
                              ![c].pc = IF calls[c].so # 0 THEN "unreserve_select"
                                        ELSE "item_insert"]
    /\ UNCHANGED <<lots, txns, orders, challanItems, last, nOps, alloc, audit_log, grnItems, purchase_orders>>

\* after a RESERVE row was handled: the next row, or the items of the challan
NextReservationRow(c) ==
    IF c.j = Len(c.rows) THEN [c EXCEPT !.pc = "item_insert", !.j = 1]
    ELSE [c EXCEPT !.j = @ + 1, !.pc = "unreserve_update"]

\* lines 3369-3377: the SELECT of the RESERVE rows of the order
SelectReservations(c) ==
    /\ calls[c].pc = "unreserve_select"
    /\ LET rows == ReservationTransactions(txns, calls[c].so) IN
       calls' = [calls EXCEPT ![c] =
                    IF rows = <<>> THEN [@ EXCEPT !.pc = "item_insert"]
                    ELSE [@ EXCEPT !.rows = rows, !.j = 1, !.pc = "unreserve_update"]]
    /\ UNCHANGED <<lots, txns, orders, challans, challanItems, last, nOps, alloc, audit_log, grnItems, purchase_orders>>

\* lines 3384-3393: the guarded UPDATE that releases one RESERVE row
ReleaseLot(c) ==
    /\ calls[c].pc = "unreserve_update"
    /\ LET row == calls[c].rows[calls[c].j] IN
       IF UnreservePredicate(lots[row.lot_id], row.quantity)
       THEN /\ lots' = [lots EXCEPT ![row.lot_id] = UnreserveUpdate(@, row.quantity)]
            /\ calls' = [calls EXCEPT ![c].balance = lots'[row.lot_id].available_quantity,
                                      ![c].pc = "unreserve_log"]
       ELSE /\ lots' = lots
            /\ calls' = [calls EXCEPT ![c] = NextReservationRow(@)]
    /\ UNCHANGED <<txns, orders, challans, challanItems, last, nOps, alloc, audit_log, grnItems, purchase_orders>>

\* lines 3395-3406: the UNRESERVE row, with the balance the UPDATE returned
LogRelease(c) ==
    /\ calls[c].pc = "unreserve_log"
    /\ LET row == calls[c].rows[calls[c].j] IN
       txns' = Append(txns, TxnRow(row.lot_id, "ADJUSTMENT", row.quantity, row.lot_id,
                                   "SALES_ORDER", calls[c].so, "UNRESERVE",
                                   calls[c].balance))
    /\ calls' = [calls EXCEPT ![c] = NextReservationRow(@)]
    /\ UNCHANGED <<lots, orders, challans, challanItems, last, nOps, alloc, audit_log, grnItems, purchase_orders>>

\* after a line of the challan was handled: the next line, or the end of
\* create_sales_challan (the order update of a conversion, lines 2969-2976)
NextLine(c, error) ==
    [c EXCEPT !.errors = IF error = "none" THEN @ ELSE Append(@, error),
              !.k = IF c.k = Len(c.items) THEN @ ELSE @ + 1,
              !.plan = <<>>, !.j = 1,
              !.pc = IF c.k < Len(c.items) THEN "item_insert"
                     ELSE IF c.kind = "convert" THEN "order_update"
                     ELSE "done",
              !.result = IF c.k < Len(c.items) \/ c.kind = "convert" THEN @
                         ELSE IF error # "none" THEN error
                         ELSE IF c.errors # <<>> THEN c.errors[1]
                         ELSE "ok"]

\* lines 2582-2612: INSERT INTO sales_challan_items, then for a conversion
\* the SELECT of the locations the order reserved the product at
InsertChallanItem(c) ==
    /\ calls[c].pc = "item_insert"
    /\ LET item == calls[c].items[calls[c].k]
           reserved == IF calls[c].so # 0
                       THEN ReservedLocations(Db(lots, txns), calls[c].so, item.product_id)
                       ELSE {}
       IN
       /\ challanItems' = Append(challanItems,
                                 [sc_id |-> calls[c].sc, product_id |-> item.product_id,
                                  weight_kg |-> item.weight_kg])
       /\ \E first \in (IF reserved # {} THEN reserved ELSE {calls[c].location_id}) :
             calls' = [calls EXCEPT ![c].challan_item = Len(challanItems) + 1,
                                    ![c].location_id = first,
                                    ![c].pc = "allocate"]
    /\ UNCHANGED <<lots, txns, orders, challans, last, nOps, alloc, audit_log, grnItems, purchase_orders>>

\* lines 2615-2625: allocate_stock_for_outbound reads the lots; a line whose
\* allocation fails is skipped
AllocateLine(c) ==
    /\ calls[c].pc = "allocate"
    /\ LET item == calls[c].items[calls[c].k]
           r == allocate_stock_for_outbound(lots, item.product_id,
                                            calls[c].location_id, item.weight_kg)
       IN calls' = [calls EXCEPT ![c] =
                       IF r.error # "none" THEN NextLine(@, r.error)
                       ELSE [@ EXCEPT !.plan = r.allocations, !.j = 1,
                                      !.pc = "balance_select"]]
    /\ UNCHANGED <<lots, txns, orders, challans, challanItems, last, nOps, alloc, audit_log, grnItems, purchase_orders>>

\* after record_inventory_transaction returned for one allocation
NextAllocation(c, error) ==
    IF c.j = Len(c.plan) THEN NextLine(c, error)
    ELSE [c EXCEPT !.errors = IF error = "none" THEN @ ELSE Append(@, error),
                   !.j = @ + 1, !.pc = "balance_select"]

\* lines 3160-3181: SELECT available_quantity of the lot and the new balance
SelectBalance(c) ==
    /\ calls[c].pc = "balance_select"
    /\ LET a == calls[c].plan[calls[c].j]
           current_balance == lots[a.lot_id].available_quantity
       IN calls' = [calls EXCEPT ![c] =
                       IF ~OutboundAllowed(current_balance, a.allocated_quantity)
                       THEN NextAllocation(@, "insufficient")
                       ELSE [@ EXCEPT !.balance = NewBalance("OUTBOUND", current_balance,
                                                             a.allocated_quantity),
                                      !.pc = "txn_insert"]]
    /\ UNCHANGED <<lots, txns, orders, challans, challanItems, last, nOps, alloc, audit_log, grnItems, purchase_orders>>

\* lines 3183-3193: INSERT INTO inventory_transactions with the new balance
InsertTransaction(c) ==
    /\ calls[c].pc = "txn_insert"
    /\ LET a == calls[c].plan[calls[c].j] IN
       txns' = Append(txns, TxnRow(a.lot_id, "OUTBOUND", a.allocated_quantity,
                                   a.location_id, "SALES_CHALLAN",
                                   calls[c].challan_item, "NULL", calls[c].balance))
    /\ calls' = [calls EXCEPT ![c].pc = "lot_update"]
    /\ UNCHANGED <<lots, orders, challans, challanItems, last, nOps, alloc, audit_log, grnItems, purchase_orders>>

\* lines 3195-3204: UPDATE inventory_lots SET available_quantity = new_balance
UpdateLotBalance(c) ==
    /\ calls[c].pc = "lot_update"
    /\ LET a == calls[c].plan[calls[c].j] IN
       lots' = [lots EXCEPT ![a.lot_id].available_quantity = calls[c].balance]
    /\ calls' = [calls EXCEPT ![c] = NextAllocation(@, "none")]
    /\ UNCHANGED <<txns, orders, challans, challanItems, last, nOps, alloc, audit_log, grnItems, purchase_orders>>

\* lines 2969-2976: UPDATE sales_orders SET converted_to_challan = TRUE,
\* status = 'Delivered'
MarkOrderConverted(c) ==
    /\ calls[c].pc = "order_update"
    /\ orders' = [orders EXCEPT ![calls[c].so].converted_to_challan = TRUE,
                                ![calls[c].so].status = "Delivered"]
    /\ calls' = [calls EXCEPT ![c].pc = "done", ![c].result = "ok"]
    /\ UNCHANGED <<lots, txns, challans, challanItems, last, nOps, alloc, audit_log, grnItems, purchase_orders>>

NextDispatch ==
    \E c \in Callers :
        \/ SelectOrder(c)
        \/ InsertChallan(c)
        \/ SelectReservations(c)
        \/ ReleaseLot(c)
        \/ LogRelease(c)
        \/ InsertChallanItem(c)
        \/ AllocateLine(c)
        \/ SelectBalance(c)
        \/ InsertTransaction(c)
        \/ UpdateLotBalance(c)
        \/ MarkOrderConverted(c)
        \/ MintNumber(c)
        \/ InsertSalesOrder(c)
        \/ ReadAvailableStock(c)
        \/ UpdateLot(c)
        \/ LogReservation(c)
        \/ FinishCall(c)

SpecDispatch == InitDispatch /\ [][NextDispatch]_vars

\* ================================================== execute_query (retries)
\* One call of DatabaseManager.execute_query.  The database and the pool are
\* the environment: each attempt they hand out a connection or none, a
\* healthy or a stale one, and the statement runs, raises or fails to commit.
MAX_RETRY_ATTEMPTS == 3

\* CONNECTION_ERROR_PATTERNS, word by word
CONNECTION_ERROR_PATTERNS ==
    {<<"ssl", "connection", "has", "been", "closed">>,
     <<"connection", "already", "closed">>,
     <<"server", "closed", "the", "connection">>,
     <<"connection", "reset">>,
     <<"connection", "refused">>}

\* str(error) of the exceptions psycopg2 raises, word by word
ErrorMessages ==
    {<<"SSL", "connection", "has", "been", "closed", "unexpectedly">>,
     <<"server", "closed", "the", "connection", "unexpectedly">>,
     <<"could", "not", "connect", "to", "server", "Connection", "refused">>,
     <<"duplicate", "key", "value", "violates", "unique", "constraint">>,
     <<"deadlock", "detected">>}

\* str.lower() on the words of the messages
Lower(msg) ==
    [i \in DOMAIN msg |-> IF msg[i] = "SSL" THEN "ssl"
                          ELSE IF msg[i] = "Connection" THEN "connection"
                          ELSE msg[i]]

\* pattern in error_msg
Contains(msg, pattern) ==
    \E i \in 1..(Len(msg) - Len(pattern) + 1) :
        SubSeq(msg, i, i + Len(pattern) - 1) = pattern

IsConnectionError(error) ==
    \E pattern \in CONNECTION_ERROR_PATTERNS : Contains(Lower(error), pattern)

\* _should_retry_error(error, attempt)
ShouldRetryError(error, attempt) ==
    IF attempt >= MAX_RETRY_ATTEMPTS - 1 THEN FALSE
    ELSE IsConnectionError(error)

\* for attempt in range(MAX_RETRY_ATTEMPTS): is there an attempt after this
AttemptsLeft(attempt) == attempt + 1 < MAX_RETRY_ATTEMPTS

InitQuery ==
    /\ lots = <<>>
    /\ txns = <<>>
    /\ orders = <<>>
    /\ challans = <<>>
    /\ challanItems = <<>>
    /\ last = NoLast
    /\ nOps = 0
    /\ calls = <<[pc |-> "attempt", attempt |-> 0, executions |-> 0, commits |-> 0,
                  result |-> "running", log |-> <<>>]>>
    /\ alloc = NoAlloc
    /\ audit_log = <<>>
    /\ purchase_orders = <<>>
    /\ grnItems = <<>>

\* the end of an iteration that did not return: the next attempt, or the
\* return None after the loop
ContinueLoop(q, entry, executed) ==
    [q EXCEPT !.log = Append(@, entry),
              !.executions = @ + executed,
              !.attempt = IF AttemptsLeft(q.attempt) THEN @ + 1 ELSE @,
              !.pc = IF AttemptsLeft(q.attempt) THEN "attempt" ELSE "done",
              !.result = IF AttemptsLeft(q.attempt) THEN @ ELSE "None"]

ReturnFromAndContinue(q, entry, executed, committed, result) ==
    [ContinueLoop(q, entry, executed) EXCEPT !.commits = @ + committed]

\* return result / return None inside the loop
ReturnFrom(q, entry, executed, committed, result) ==
    [q EXCEPT !.log = Append(@, entry),
              !.executions = @ + executed,
              !.commits = @ + committed,
              !.pc = "done",
              !.result = result]

\* lines 140-145: get_connection returned None
NoConnection ==
    /\ calls[1].pc = "attempt"
    /\ LET q == calls[1]
           entry == [attempt |-> q.attempt, outcome |-> "no_connection", error |-> <<>>,
                     executed |-> 0]
       IN calls' = <<IF q.attempt = MAX_RETRY_ATTEMPTS - 1
                     THEN ReturnFrom(q, entry, 0, 0, "None")
                     ELSE ContinueLoop(q, entry, 0)>>
    /\ UNCHANGED <<lots, txns, orders, challans, challanItems, last, nOps, alloc, audit_log, grnItems, purchase_orders>>

\* lines 147-153: the connection is stale and the recreated pool gives none
StaleConnection ==
    /\ calls[1].pc = "attempt"
    /\ LET q == calls[1]
           entry == [attempt |-> q.attempt, outcome |-> "stale", error |-> <<>>,
                     executed |-> 0]
       IN calls' = <<ContinueLoop(q, entry, 0)>>
    /\ UNCHANGED <<lots, txns, orders, challans, challanItems, last, nOps, alloc, audit_log, grnItems, purchase_orders>>

\* lines 168-178: an exception of the attempt, raised by the statement
\* (executed) or before it ran (connection.cursor on a dead connection)
\* or by its commit; the transaction is rolled back
AttemptRaises ==
    /\ calls[1].pc = "attempt"
    /\ \E error \in ErrorMessages, executed \in {0, 1} :
         LET q == calls[1]
             entry == [attempt |-> q.attempt, outcome |-> "raised", error |-> error,
                       executed |-> executed]
         IN calls' = <<IF ShouldRetryError(error, q.attempt)
                       THEN ContinueLoop(q, entry, executed)
                       ELSE IF q.attempt = MAX_RETRY_ATTEMPTS - 1
                       THEN ReturnFrom(q, entry, executed, 0, "None")
                       ELSE ContinueLoop(q, entry, executed)>>
    /\ UNCHANGED <<lots, txns, orders, challans, challanItems, last, nOps, alloc, audit_log, grnItems, purchase_orders>>

\* lines 155-166: the statement ran, the result was fetched, the commit
\* went through and the result is returned
StatementCommits ==
    /\ calls[1].pc = "attempt"
    /\ LET q == calls[1]
           entry == [attempt |-> q.attempt, outcome |-> "committed", error |-> <<>>,
                     executed |-> 1]
       IN calls' = <<ReturnFrom(q, entry, 1, 1, "result")>>
    /\ UNCHANGED <<lots, txns, orders, challans, challanItems, last, nOps, alloc, audit_log, grnItems, purchase_orders>>

NextQuery ==
    \/ NoConnection
    \/ StaleConnection
    \/ AttemptRaises
    \/ StatementCommits

SpecQuery == InitQuery /\ [][NextQuery]_vars

\* the thread of the request keeps running until the call returns
SpecQueryFair == SpecQuery /\ WF_vars(NextQuery)

\* ============================================ the pool under two requests
\* Two requests run execute_query on their own threads over the one
\* DatabaseManager.  A connection is named by the pool it was taken from:
\* ThreadedConnectionPool.closeall() closes every connection of its pool, the
\* ones handed out included.  alloc is the manager: pool, the number of the
\* current connection_pool, and closed, the pools closeall was called on.
\* outer is the connection create_sales_order or create_purchase_order took
\* with get_connection for its own transaction, 0 for a plain query.
InitPool ==
    /\ lots = <<>>
    /\ txns = <<>>
    /\ orders = <<>>
    /\ challans = <<>>
    /\ challanItems = <<>>
    /\ last = NoLast
    /\ nOps = 0
    /\ calls \in [Callers -> {[pc |-> "attempt", attempt |-> 0, conn |-> 0,
                                outer |-> outer, result |-> "running"] : outer \in {0, 1}}]
    /\ alloc = [fn |-> "pool", pool |-> 1, closed |-> {}]
    /\ audit_log = <<>>
    /\ purchase_orders = <<>>
    /\ grnItems = <<>>

\* lines 68-94: closeall() on the existing pool, then a new pool
create_connection_pool(m) == [m EXCEPT !.closed = @ \cup {m.pool}, !.pool = @ + 1]

\* lines 133-140: a retry recreates the pool, then get_connection
Checkout(c) ==
    /\ calls[c].pc = "attempt"
    /\ LET m == IF calls[c].attempt > 0 THEN create_connection_pool(alloc) ELSE alloc IN
       /\ alloc' = m
       /\ calls' = [calls EXCEPT ![c].conn = m.pool, ![c].pc = "health"]
    /\ UNCHANGED <<lots, txns, orders, challans, challanItems, last, nOps, audit_log, grnItems, purchase_orders>>

\* lines 147-153: _is_connection_healthy reads connection.isolation_level,
\* which raises or not on a closed connection with the psycopg2 in use; a
\* stale connection is returned, the pool recreated and another taken
HealthCheck(c) ==
    /\ calls[c].pc = "health"
    /\ \E healthy \in {TRUE} \cup {FALSE : x \in {calls[c].conn} \cap alloc.closed} :
         LET m == IF healthy THEN alloc ELSE create_connection_pool(alloc) IN
         /\ alloc' = m
         /\ calls' = [calls EXCEPT ![c].conn = IF healthy THEN @ ELSE m.pool,
                                   ![c].pc = "execute"]
    /\ UNCHANGED <<lots, txns, orders, challans, challanItems, last, nOps, audit_log, grnItems, purchase_orders>>

\* lines 155-188: the statement commits and the result is returned, or it
\* raises a connection error (always on a closed connection) and the loop
\* goes on while attempts are left; finally returns the connection
Execute(c) ==
    /\ calls[c].pc = "execute"
    /\ \E raised \in {TRUE} \cup {FALSE : x \in {calls[c].conn} \ alloc.closed} :
         calls' = [calls EXCEPT ![c] =
            IF ~raised THEN [@ EXCEPT !.conn = 0, !.pc = "done", !.result = "result"]
            ELSE IF AttemptsLeft(@.attempt)
            THEN [@ EXCEPT !.conn = 0, !.pc = "attempt", !.attempt = @ + 1]
            ELSE [@ EXCEPT !.conn = 0, !.pc = "done", !.result = "None"]]
    /\ UNCHANGED <<lots, txns, orders, challans, challanItems, last, nOps, alloc, audit_log, grnItems, purchase_orders>>

SpecPool ==
    InitPool /\ [][\E c \in Callers : Checkout(c) \/ HealthCheck(c) \/ Execute(c)]_vars

\* ================================================ DatabaseManager()
\* The constructions of the process.  Thread 1 imports database_storage,
\* whose last statement constructs the manager (line 3562); the module is
\* imported before any view can run, so the request threads construct (the
\* views call DatabaseManager() again) once the import is done.  Every
\* read and write of _instance and _initialized is a step; alloc is the
\* class: _instance (0 for None), the objects made, the objects whose
\* _initialized is True, the runs of the body of __init__ and the pool.
MaxHandlers == 3

MaxConstructions == 2

InitManager ==
    /\ lots = <<>>
    /\ txns = <<>>
    /\ orders = <<>>
    /\ challans = <<>>
    /\ challanItems = <<>>
    /\ last = NoLast
    /\ nOps = 0
    /\ calls = [t \in 1..(MaxHandlers + 1) |-> [pc |-> "idle", self |-> 0, got |-> 0, n |-> 0]]
    /\ alloc = [fn |-> "manager", instance |-> 0, instances |-> 0, initialized |-> {},
                init_runs |-> 0, connection_pool |-> "None"]
    /\ audit_log = <<>>
    /\ purchase_orders = <<>>
    /\ grnItems = <<>>

\* lines 46-50, __new__: if cls._instance is None, cls._instance =
\* super().__new__(cls), return cls._instance
ManagerNew(t) ==
    /\ calls[t].pc \in {"idle", "new_set", "new_return"}
    /\ calls[t].pc = "idle" =>
          IF t = 1 THEN calls[t].n = 0
          ELSE calls[1].n = 1 /\ calls[t].n < MaxConstructions
    /\ alloc' = IF calls[t].pc = "new_set"
                THEN [alloc EXCEPT !.instances = @ + 1, !.instance = alloc.instances + 1]
                ELSE alloc
    /\ calls' = [calls EXCEPT ![t] =
                    IF @.pc = "idle"
                    THEN [@ EXCEPT !.pc = IF alloc.instance = 0 THEN "new_set" ELSE "new_return"]
                    ELSE IF @.pc = "new_set" THEN [@ EXCEPT !.pc = "new_return"]
                    ELSE [@ EXCEPT !.self = alloc.instance, !.pc = "init_check"]]
    /\ UNCHANGED <<lots, txns, orders, challans, challanItems, last, nOps, audit_log, grnItems, purchase_orders>>

IsInitializedNever(m, self) == FALSE

\* if self._initialized
IsInitialized(m, self) == self \in m.initialized

\* lines 52-66, __init__: the check of _initialized, the body (statistics,
\* config, the pool, which the database grants or not, init_tables) and
\* self._initialized = True
ManagerInit(t) ==
    /\ calls[t].pc \in {"init_check", "body", "set"}
    /\ \E pool \in {"pool", "None"} :
         alloc' = IF calls[t].pc = "body"
                  THEN [alloc EXCEPT !.init_runs = @ + 1, !.connection_pool = pool]
                  ELSE IF calls[t].pc = "set"
                  THEN [alloc EXCEPT !.initialized = @ \cup {calls[t].self}]
                  ELSE alloc
    /\ calls' = [calls EXCEPT ![t] =
                    IF @.pc = "init_check" /\ ~IsInitialized(alloc, @.self)
                    THEN [@ EXCEPT !.pc = "body"]
                    ELSE IF @.pc = "body" THEN [@ EXCEPT !.pc = "set"]
                    ELSE [@ EXCEPT !.pc = "idle", !.got = calls[t].self, !.n = @ + 1]]
    /\ UNCHANGED <<lots, txns, orders, challans, challanItems, last, nOps, audit_log, grnItems, purchase_orders>>

SpecManager ==
    InitManager /\ [][\E t \in 1..(MaxHandlers + 1) : ManagerNew(t) \/ ManagerInit(t)]_vars

\* ===================================================== goods receipts
\* create_grn with several items, any of whose lot statements may fail.
MaxReceiptItems == 3

InitGrn ==
    /\ lots = <<>>
    /\ txns = <<>>
    /\ orders = <<>>
    /\ challans = <<>>
    /\ challanItems = <<>>
    /\ last = NoLast
    /\ nOps = 0
    /\ calls = <<>>
    /\ alloc = NoAlloc
    /\ audit_log = <<>>
    /\ purchase_orders = <<>>
    /\ grnItems = <<>>

\* the statement of an item that fails (execute_query returns None): the
\* INSERT of its lot, or the UPDATE that links the lot to the item
ReceiveGoods ==
    /\ \E loc \in Locations, items \in ItemSeqs(GrnQtys) :
         \E faults \in [1..Len(items) -> {"none", "lot_insert", "link_update"}] :
            /\ Len(grnItems) + Len(items) <= MaxReceiptItems
            /\ LET st == create_grn([db |-> Db(lots, txns), grnItems |-> grnItems],
                                    GrnId(audit_log), loc, items, faults) IN
               /\ lots' = st.db.lots
               /\ txns' = st.db.txns
               /\ grnItems' = st.grnItems
    /\ last' = Record("create_grn", 0, TRUE, "none")
    /\ audit_log' = log_audit_event(audit_log, "CREATE", "GRN", GrnId(audit_log))
    /\ nOps' = nOps + 1
    /\ UNCHANGED <<orders, challans, challanItems, calls, alloc, purchase_orders>>

SpecGrn == InitGrn /\ [][ReceiveGoods]_vars

\* ================================================ purchase order lifecycle
\* purchase_order_detail_view of simple_server.py: PUT and DELETE on one
\* purchase order, guarded by the allowed-actions table.
MaxPurchaseOrders == 1

\* lifecycle_rules.get((status, converted_to_grn), [])
get_allowed_actions(status, converted_to_grn) ==
    IF status = "Order Placed" /\ ~converted_to_grn
    THEN {"edit", "delete", "convert_to_grn", "mark_received", "mark_cancelled"}
    ELSE IF status = "Order Received" /\ ~converted_to_grn
    THEN {"edit", "delete", "convert_to_grn", "mark_cancelled"}
    ELSE IF status = "Order Received" /\ converted_to_grn
    THEN {}
    ELSE IF status = "Order Cancelled"
    THEN {"delete"}
    ELSE {}

validate_action(status, converted_to_grn, action) ==
    action \in get_allowed_actions(status, converted_to_grn)

\* the row create_purchase_order inserts, with the column defaults
PurchaseOrderRow(supplier_id, items) ==
    [status |-> "Order Placed", converted_to_grn |-> FALSE, is_deleted |-> FALSE,
     supplier_id |-> supplier_id, items |-> items]

\* the keys of the JSON body of a PUT that the view looks at: hasEdit is
\* 'supplierId' in data and 'items' in data
PutBodies ==
    {[hasConverted |-> hc, converted_to_grn |-> cv, hasStatus |-> hs, status |-> st,
      hasEdit |-> he, supplierId |-> 2, items |-> <<Item(1, 1)>>] :
        hc \in BOOLEAN, cv \in BOOLEAN, hs \in BOOLEAN,
        st \in {"Order Placed", "Order Received", "Order Cancelled"},
        he \in BOOLEAN}

\* WHERE id = %s AND is_deleted = FALSE
PurchaseOrderFound(pos, id) == id \in DOMAIN pos /\ ~pos[id].is_deleted

\* lines 482-505: the validation of a PUT
PutRejected(row, data) ==
    LET allowed(action) == validate_action(row.status, row.converted_to_grn, action) IN
    IF data.hasConverted /\ data.hasStatus THEN ~allowed("convert_to_grn")
    ELSE IF data.hasEdit THEN ~allowed("edit")
    ELSE IF data.hasStatus
    THEN \/ data.status = "Order Received" /\ ~allowed("mark_received")
         \/ data.status = "Order Cancelled" /\ ~allowed("mark_cancelled")
    ELSE FALSE

\* lines 507-603: the update the body leads to
PutUpdate(row, data) ==
    IF data.hasConverted /\ data.hasStatus
    THEN [row EXCEPT !.converted_to_grn = data.converted_to_grn, !.status = data.status]
    ELSE IF data.hasConverted
    THEN IF data.converted_to_grn
         THEN [row EXCEPT !.converted_to_grn = TRUE, !.status = "Order Received"]
         ELSE [row EXCEPT !.converted_to_grn = FALSE]
    ELSE IF data.hasStatus
    THEN [row EXCEPT !.status = data.status]
    ELSE IF data.hasEdit
    THEN [row EXCEPT !.supplier_id = data.supplierId, !.items = data.items]
    ELSE row

\* returns the table and the HTTP status of the response
put_purchase_order(pos, id, data) ==
    IF ~PurchaseOrderFound(pos, id) THEN [purchase_orders |-> pos, code |-> 404]
    ELSE IF PutRejected(pos[id], data) THEN [purchase_orders |-> pos, code |-> 400]
    ELSE [purchase_orders |-> [pos EXCEPT ![id] = PutUpdate(@, data)], code |-> 200]

\* lines 614-642
delete_purchase_order(pos, id) ==
    IF ~PurchaseOrderFound(pos, id) THEN [purchase_orders |-> pos, code |-> 404]
    ELSE IF ~validate_action(pos[id].status, pos[id].converted_to_grn, "delete")
    THEN [purchase_orders |-> pos, code |-> 400]
    ELSE [purchase_orders |-> [pos EXCEPT ![id].is_deleted = TRUE], code |-> 200]

NoBody ==
    [hasConverted |-> FALSE, converted_to_grn |-> FALSE, hasStatus |-> FALSE,
     status |-> "Order Placed", hasEdit |-> FALSE, supplierId |-> 2,
     items |-> <<Item(1, 1)>>]

\* what the last request was and the row it found
PoRequest(op, id, data, code) ==
    [op |-> op, id |-> id, data |-> data, code |-> code,
     pre |-> IF id \in DOMAIN purchase_orders THEN purchase_orders[id]
             ELSE PurchaseOrderRow(0, <<>>)]

InitPo ==
    /\ lots = <<>>
    /\ txns = <<>>
    /\ orders = <<>>
    /\ challans = <<>>
    /\ challanItems = <<>>
    /\ last = NoLast
    /\ nOps = 0
    /\ calls = <<>>
    /\ alloc = NoAlloc
    /\ audit_log = <<>>
    /\ grnItems = <<>>
    /\ purchase_orders = <<>>

CreatePurchaseOrder ==
    /\ Len(purchase_orders) < MaxPurchaseOrders
    /\ purchase_orders' = Append(purchase_orders, PurchaseOrderRow(1, <<Item(1, 2)>>))
    /\ last' = PoRequest("post", Len(purchase_orders) + 1, NoBody, 201)
    /\ UNCHANGED <<lots, txns, orders, challans, challanItems, nOps, calls, alloc, audit_log,
                   grnItems>>

PutPurchaseOrder ==
    /\ \E id \in DOMAIN purchase_orders, data \in PutBodies :
         LET r == put_purchase_order(purchase_orders, id, data) IN
         /\ purchase_orders' = r.purchase_orders
         /\ last' = PoRequest("put", id, data, r.code)
    /\ UNCHANGED <<lots, txns, orders, challans, challanItems, nOps, calls, alloc, audit_log,
                   grnItems>>

DeletePurchaseOrder ==
    /\ \E id \in DOMAIN purchase_orders :
         LET r == delete_purchase_order(purchase_orders, id) IN
         /\ purchase_orders' = r.purchase_orders
         /\ last' = PoRequest("delete", id, NoBody, r.code)
    /\ UNCHANGED <<lots, txns, orders, challans, challanItems, nOps, calls, alloc, audit_log,
                   grnItems>>

NextPo ==
    \/ CreatePurchaseOrder
    \/ PutPurchaseOrder
    \/ DeletePurchaseOrder

SpecPo == InitPo /\ [][NextPo]_vars

\* ======================================= get_stock_levels_by_category
\* The stock listing only reads inventory_lots.  Its lots carry the
\* category_id column, which no other operation of the ledger looks at.
MaxStockLots == 2

NoCategory == 0

StockLotRow(p, cat, loc, w, committed, id) ==
    [LotRow(p, loc, w, id, id) EXCEPT !.committed_quantity = committed]
        @@ [category_id |-> cat]

StockColumns ==
    [product_id : Products, category_id : {1, 2},
     location_id : Locations, available_quantity : {0, 2},
     committed_quantity : {0, 1}]

StockTables ==
    UNION {{[id \in 1..n |->
                StockLotRow(t[id].product_id, t[id].category_id, t[id].location_id,
                            t[id].available_quantity, t[id].committed_quantity, id)]
            : t \in [1..n -> StockColumns]}
           : n \in 1..MaxStockLots}

RECURSIVE SumColumn(_, _, _)
SumColumn(ls, S, column) ==
    IF S = {} THEN 0
    ELSE LET i == CHOOSE x \in S : TRUE
         IN ls[i][column] + SumColumn(ls, S \ {i}, column)

\* lines 3483-3499: the WHERE of the category query is the conditions joined
\* by AND with no parentheses around the first one, so the OR splits it:
\* available > 0 OR (committed > 0 AND location AND c.id IS NOT NULL)
CategoryWhere(l, location_id) ==
    \/ l.available_quantity > 0
    \/ /\ l.committed_quantity > 0
       /\ (location_id # NoLocation => l.location_id = location_id)
       /\ l.category_id # NoCategory

\* lines 3510-3524: the WHERE of the product query, with its parentheses;
\* category_id = NULL matches no row
ProductWhere(l, category_id, location_id) ==
    /\ category_id # NoCategory
    /\ l.category_id = category_id
    /\ (l.available_quantity > 0 \/ l.committed_quantity > 0)
    /\ (location_id # NoLocation => l.location_id = location_id)

\* lines 3510-3541: one row per product of the category
ProductDetails(ls, category_id, location_id) ==
    LET rows == {i \in DOMAIN ls : ProductWhere(ls[i], category_id, location_id)} IN
    {LET S == {i \in rows : ls[i].product_id = p} IN
     [productId |-> p,
      availableQuantity |-> SumColumn(ls, S, "available_quantity"),
      committedQuantity |-> SumColumn(ls, S, "committed_quantity"),
      totalQuantity |-> SumColumn(ls, S, "available_quantity")
                            + SumColumn(ls, S, "committed_quantity"),
      lotCount |-> Cardinality(S)]
     : p \in {ls[i].product_id : i \in rows}}

\* lines 3479-3555: one row per category (GROUP BY c.id), each with the
\* rows of its products
get_stock_levels_by_category(ls, location_id) ==
    LET rows == {i \in DOMAIN ls : CategoryWhere(ls[i], location_id)} IN
    {LET S == {i \in rows : ls[i].category_id = cat} IN
     [categoryId |-> cat,
      totalAvailable |-> SumColumn(ls, S, "available_quantity"),
      totalCommitted |-> SumColumn(ls, S, "committed_quantity"),
      totalQuantity |-> SumColumn(ls, S, "available_quantity")
                            + SumColumn(ls, S, "committed_quantity"),
      productCount |-> Cardinality({ls[i].product_id : i \in S}),
      products |-> ProductDetails(ls, cat, location_id)]
     : cat \in {ls[i].category_id : i \in rows}}

InitStock ==
    /\ lots \in StockTables
    /\ txns = <<>>
    /\ orders = <<>>
    /\ challans = <<>>
    /\ challanItems = <<>>
    /\ last = NoLast
    /\ nOps = 0
    /\ calls = <<>>
    /\ alloc = NoAlloc
    /\ audit_log = <<>>
    /\ grnItems = <<>>
    /\ purchase_orders = <<>>

\* simple_server.py 1077-1087: location_id is the query parameter, or None
GetStockLevelsByCategory ==
    /\ \E location_id \in Locations \cup {NoLocation} :
          alloc' = [fn |-> "get_stock_levels_by_category",
                    location_id |-> location_id,
                    result |-> get_stock_levels_by_category(lots, location_id)]
    /\ UNCHANGED <<lots, txns, orders, challans, challanItems, last, nOps, calls, audit_log, grnItems, purchase_orders>>

SpecStock == InitStock /\ [][GetStockLevelsByCategory]_vars

\* ==================================================================== claims
InboundOn(tx, lot) ==
    SelectSeq(tx, LAMBDA t : t.lot_id = lot /\ t.transaction_type = "INBOUND")

OutboundOn(tx, lot) ==
    SelectSeq(tx, LAMBDA t : t.lot_id = lot /\ t.transaction_type = "OUTBOUND")

NewTxns == SubSeq(txns, last.preNtx + 1, Len(txns))

\* C1: after any sequence of GRN creations, sales-order creations,
\* cancellations, challan creations, conversions and status updates every
\* lot has available_quantity >= 0 and committed_quantity >= 0.
C1_NonNegative ==
    \A i \in DOMAIN lots :
        lots[i].available_quantity >= 0 /\ lots[i].committed_quantity >= 0

\* a lot that was reserved, released a second time and dispatched to zero
C1_Witness ==
    /\ last.op \in {"deliver", "convert", "cancel"}
    /\ \E i \in DOMAIN lots :
          /\ lots[i].committed_quantity = 0
          /\ ReservationTransactions(txns, last.so) # <<>>
          /\ OutboundOn(txns, i) # <<>>

\* C2: for every lot available_quantity + committed_quantity equals the
\* quantity of its INBOUND transaction minus the sum of the quantities of
\* its OUTBOUND transactions.
C2_Conservation ==
    \A i \in DOMAIN lots :
        lots[i].available_quantity + lots[i].committed_quantity
            = SumQuantity(InboundOn(txns, i)) - SumQuantity(OutboundOn(txns, i))

\* C3: after create_grn received an item of quantity q the new lot has
\* available_quantity = q and committed_quantity = 0 and exactly one
\* INBOUND transaction, whose balance is q.
C3_InboundLot ==
    last.op = "create_grn" =>
        LET lot == Len(lots) IN
        /\ lots[lot].available_quantity = last.qty
        /\ lots[lot].committed_quantity = 0
        /\ Len(InboundOn(txns, lot)) = 1
        /\ InboundOn(txns, lot)[1].balance_quantity = last.qty

\* the transactions logged since the Reserve that the last cancellation undid
ChainTxns == SubSeq(txns, last.chainNtx + 1, Len(txns))

TaggedOn(lot, tag) ==
    SelectSeq(ChainTxns, LAMBDA t : /\ t.lot_id = lot
                                    /\ t.reference_type = "SALES_ORDER"
                                    /\ t.reference_id = last.so
                                    /\ t.transaction_type = "ADJUSTMENT"
                                    /\ t.reservation_type = tag)

ReserveThenUnreserve == last.op = "cancel" /\ last.ok /\ last.chained

\* C4 as stated: a successful Reserve of an order directly followed by its
\* Unreserve returns every lot to its pre-Reserve counters, and the log gains
\* exactly one RESERVE and one UNRESERVE transaction per lot touched.
C4_OnePairPerLot ==
    ReserveThenUnreserve =>
        /\ lots = last.chainLots
        /\ \A lot \in DOMAIN lots :
              TaggedOn(lot, "RESERVE") # <<>> =>
                  /\ Len(TaggedOn(lot, "RESERVE")) = 1
                  /\ Len(TaggedOn(lot, "UNRESERVE")) = 1

\* C4 (amended): a successful Reserve of an order directly followed by its
\* Unreserve returns every lot to its pre-Reserve counters, and on every lot
\* the log gains as many UNRESERVE as RESERVE transactions of the order, of
\* the same total quantity (one pair per line item and lot), and nothing else.
C4_ReserveUnreserveIdentity ==
    ReserveThenUnreserve =>
        /\ lots = last.chainLots
        /\ \A lot \in DOMAIN lots :
              /\ Len(TaggedOn(lot, "UNRESERVE")) = Len(TaggedOn(lot, "RESERVE"))
              /\ SumQuantity(TaggedOn(lot, "UNRESERVE")) = SumQuantity(TaggedOn(lot, "RESERVE"))
        /\ \A i \in DOMAIN ChainTxns :
              /\ ChainTxns[i].reference_id = last.so
              /\ ChainTxns[i].reservation_type \in {"RESERVE", "UNRESERVE"}

\* a reservation spanning two lots was made and released
C4_Witness ==
    /\ ReserveThenUnreserve
    /\ \E a, b \in DOMAIN lots :
          a # b /\ TaggedOn(a, "UNRESERVE") # <<>> /\ TaggedOn(b, "UNRESERVE") # <<>>

\* ---------------------------------------------------------------- C5
BothDone == \A c \in Callers : calls[c].pc = "done"

Demand(c) == SumWeight(calls[c].items)

\* reservations move kilograms between the two counters of a lot, so the
\* stock the calls started from is what the counters add up to
StockAtStart ==
    SumQuantity([i \in DOMAIN lots |->
                    [quantity |-> lots[i].available_quantity + lots[i].committed_quantity]])

Oversold ==
    /\ \A c \in Callers : Demand(c) <= StockAtStart
    /\ Demand(1) + Demand(2) > StockAtStart

StockErrors == {"no_stock", "insufficient", "reserve_failed"}

\* C5: when two concurrent creations for the same product each fit the
\* product's available stock but not together, then under every
\* interleaving exactly one succeeds, the other fails with an
\* insufficient-stock error, and no lot counter is below zero.
C5_ExactlyOneReserves ==
    /\ \A i \in DOMAIN lots :
           lots[i].available_quantity >= 0 /\ lots[i].committed_quantity >= 0
    /\ (BothDone /\ Oversold) =>
           \E c \in Callers : \E d \in Callers \ {c} :
               /\ calls[c].result = "ok"
               /\ calls[d].result \in StockErrors

C7_UnreserveIdempotent == last.obs # "changed"

\* C8: for every sales order with status New and every product, the RESERVE
\* quantities minus the UNRESERVE quantities referencing the order on lots of
\* the product equal the quantity the order's items require of the product.
NetReserved(ls, tx, so, p) ==
    LET onProduct(tag) ==
            SelectSeq(tx, LAMBDA t : /\ t.reference_type = "SALES_ORDER"
                                     /\ t.reference_id = so
                                     /\ t.transaction_type = "ADJUSTMENT"
                                     /\ t.reservation_type = tag
                                     /\ ls[t.lot_id].product_id = p)
    IN SumQuantity(onProduct("RESERVE")) - SumQuantity(onProduct("UNRESERVE"))

Required(items, p) == SumWeight(SelectSeq(items, LAMBDA it : it.product_id = p))

C8_ReservationBijection ==
    \A so \in DOMAIN orders :
        (orders[so].present /\ orders[so].status = "New") =>
            \A p \in Products :
                NetReserved(lots, txns, so, p) = Required(orders[so].items, p)

\* C9: a Conversion takes its OUTBOUND quantities from exactly the lots, and
\* in exactly the per-lot quantities, that carry the RESERVE transactions of
\* the source order (here for an order that was New, unconverted and whose
\* reservation matched its items when the conversion was called).
DispatchedOn(lot) ==
    SumQuantity(SelectSeq(NewTxns, LAMBDA t : /\ t.lot_id = lot
                                              /\ t.transaction_type = "OUTBOUND"))

ConvertedSoundOrder ==
    /\ last.op = "convert" /\ last.ok
    /\ last.preOrder.status = "New" /\ ~last.preOrder.is_deleted
    /\ \A p \in Products :
          NetReserved(lots, SubSeq(txns, 1, last.preNtx), last.so, p)
              = Required(last.preOrder.items, p)

C9_ConversionUsesReservedLots ==
    ConvertedSoundOrder =>
        \A lot \in DOMAIN lots : DispatchedOn(lot) = ReservedOn(txns, last.so, lot)

\* C10: convert_sales_order_to_challan on an order that is Cancelled,
\* Delivered, converted or deleted returns an error and changes no order,
\* challan, lot or transaction.
C10_ConvertOnlyNew ==
    (/\ last.op = "convert"
     /\ last.preOrder.present
     /\ \/ last.preOrder.status # "New"
        \/ last.preOrder.converted_to_challan
        \/ last.preOrder.is_deleted) =>
        /\ ~last.ok
        /\ lots = last.preLots
        /\ Len(txns) = last.preNtx
        /\ orders[last.so] = last.preOrder
        /\ Len(challans) = last.preNch

\* ---------------------------------------------------------------- C11
\* the OUTBOUND rows that reference a sales_challan_items row
OutboundOfChallanItem(ci) ==
    SelectSeq(txns, LAMBDA t : /\ t.transaction_type = "OUTBOUND"
                               /\ t.reference_type = "SALES_CHALLAN"
                               /\ t.reference_id = ci)

NewChallanItems == {ci \in DOMAIN challanItems : challanItems[ci].sc_id = Len(challans)}

\* C11: whenever convert_sales_order_to_challan returns success (here for an
\* order that was New, unconverted and whose reservation matched its items),
\* the OUTBOUND transactions of every line of the new challan sum to the
\* line's required quantity, nothing reserved by the order remains
\* committed, and the order is Delivered with converted_to_challan = true.
C11_ConversionComplete ==
    ConvertedSoundOrder =>
        /\ Cardinality(NewChallanItems) = Len(last.preOrder.items)
        /\ \A ci \in NewChallanItems :
              SumQuantity(OutboundOfChallanItem(ci)) = challanItems[ci].weight_kg
        /\ \A p \in Products : NetReserved(lots, txns, last.so, p) = 0
        /\ orders[last.so].status = "Delivered"
        /\ orders[last.so].converted_to_challan

\* ---------------------------------------------------------------- C12
ConversionFailed ==
    /\ last.op = "convert" /\ ~last.ok
    /\ last.preOrder.present /\ last.preOrder.status = "New"
    /\ ~last.preOrder.is_deleted /\ ~last.preOrder.converted_to_challan
    /\ last.preOrder.items # <<>>

\* C12: when convert_sales_order_to_challan returns an error at one of its
\* steps, no challan row of the call exists, every lot and the transaction
\* log are as before the call, and the order is still New and unconverted.
C12_ConversionAllOrNothing ==
    ConversionFailed =>
        /\ Len(challans) = last.preNch
        /\ lots = last.preLots
        /\ Len(txns) = last.preNtx
        /\ orders[last.so] = last.preOrder

\* ---------------------------------------------------------------- C13
InvalidTransitions ==
    {<<"Delivered", "New">>, <<"Cancelled", "New">>, <<"Delivered", "Cancelled">>}

StatusStep(so) == <<orders[so].status, orders'[so].status>>

\* C13: no step takes the status of a sales order from Delivered to New,
\* from Cancelled to New or from Delivered to Cancelled (such a request
\* would have to be rejected and change nothing).
C13_NoInvalidTransition ==
    [][\A so \in DOMAIN orders :
          orders[so].present => StatusStep(so) \notin InvalidTransitions]_vars

\* ---------------------------------------------------------------- C14
\* C14: a sales order goes from New to Delivered only in a step of
\* convert_sales_order_to_challan.
C14_DeliveredOnlyByConversion ==
    [][\A so \in DOMAIN orders :
          (orders[so].present /\ StatusStep(so) = <<"New", "Delivered">>)
              => last'.op = "convert"]_vars

\* ---------------------------------------------------------------- C15
\* lot a comes before lot b in created_at order, ties by lot id
Precedes(a, b) ==
    \/ lots[a].created_at < lots[b].created_at
    \/ (lots[a].created_at = lots[b].created_at /\ a < b)

Planned == alloc.fn # "none" /\ alloc.error = "none"

\* C15: a plan of either allocator lists lots in ascending created_at
\* order, lots of equal created_at in ascending lot id order, and a lot gets
\* an allocation only if every eligible lot before it in that order is
\* drained by the plan.
C15_FifoWithIdTieBreak ==
    Planned =>
        /\ \A i, j \in DOMAIN alloc.plan :
              i < j => Precedes(alloc.plan[i].lot_id, alloc.plan[j].lot_id)
        /\ \A i \in DOMAIN alloc.plan : \A e \in alloc.eligible :
              Precedes(e, alloc.plan[i].lot_id) =>
                  \E k \in DOMAIN alloc.plan :
                      /\ alloc.plan[k].lot_id = e
                      /\ alloc.plan[k].allocated_quantity = lots[e].available_quantity

\* ---------------------------------------------------------------- C16
RECURSIVE SumAllocated(_)
SumAllocated(plan) ==
    IF plan = <<>> THEN 0 ELSE Head(plan).allocated_quantity + SumAllocated(Tail(plan))

RECURSIVE EligibleTotal(_)
EligibleTotal(S) ==
    IF S = {} THEN 0
    ELSE LET e == CHOOSE x \in S : TRUE
         IN lots[e].available_quantity + EligibleTotal(S \ {e})

TakenNumbers ==
    {x[3] : x \in {y \in alloc.existing : y[1] = alloc.prefix /\ y[2] = alloc.day}}

\* C17: the trailing number N of a minted identifier is the least positive
\* integer that no existing identifier of the same prefix and date uses.
C17_LeastFreeNumber ==
    alloc.fn = "mint" =>
        /\ alloc.number[1] = alloc.prefix /\ alloc.number[2] = alloc.day
        /\ alloc.number[3] > 0
        /\ alloc.number[3] \notin TakenNumbers
        /\ \A m \in 1..(alloc.number[3] - 1) : m \in TakenNumbers

\* existing 1 and 3 give 2
C17_Witness ==
    /\ alloc.fn = "mint"
    /\ {1, 3} \subseteq TakenNumbers
    /\ alloc.number[3] = 2

\* ---------------------------------------------------------------- C18
\* C18: two sales orders created concurrently on the same day (with stock
\* for both) never leave two rows with the same so_number, and both
\* creations succeed, with distinct numbers.
C18_ConcurrentMintsSucceed ==
    /\ \A i, j \in DOMAIN orders :
           (i # j /\ orders[i].present /\ orders[j].present)
               => orders[i].so_number # orders[j].so_number
    /\ (/\ BothDone
        /\ calls[1].day = calls[2].day
        /\ Demand(1) + Demand(2) <= StockAtStart) =>
           /\ \A c \in Callers : calls[c].result = "ok"
           /\ calls[1].so_number # calls[2].so_number

\* ---------------------------------------------------------------- C19
TxnsOn(lot) == SelectSeq(txns, LAMBDA t : t.lot_id = lot)

\* what a transaction does to the available quantity of its lot
AvailableDelta(t) ==
    IF t.transaction_type = "INBOUND" THEN t.quantity
    ELSE IF t.transaction_type = "OUTBOUND" THEN 0 - t.quantity
    ELSE IF t.reservation_type = "RESERVE" THEN 0 - t.quantity
    ELSE IF t.reservation_type = "UNRESERVE" THEN t.quantity
    ELSE 0

\* C19: once no call is in progress, on every lot each transaction carries
\* the available quantity the lot had right after it (every balance is the
\* previous balance of the lot changed by the transaction), and the balance
\* of the lot's latest transaction is the lot's current available quantity.
C19_BalanceFidelity ==
    (\A c \in DOMAIN calls : calls[c].pc = "done") =>
        \A lot \in DOMAIN lots :
            LET ts == TxnsOn(lot) IN
            /\ ts # <<>> =>
                  ts[Len(ts)].balance_quantity = lots[lot].available_quantity
            /\ \A k \in 2..Len(ts) :
                  ts[k].balance_quantity =
                      ts[k - 1].balance_quantity + AvailableDelta(ts[k])

\* ---------------------------------------------------------------- C20
CoordinatorOps ==
    {"create_grn", "create_sales_order", "cancel", "create_sales_challan", "convert"}

\* C20: a GRN creation, sales-order creation, cancellation, challan
\* creation or conversion appends exactly one audit_log entry when it
\* succeeds and none when it returns an error.
C20_OneAuditEntry ==
    last.op \in CoordinatorOps =>
        Len(audit_log) = last.preNaudit + (IF last.ok THEN 1 ELSE 0)

\* ---------------------------------------------------------------- C21
\* what the lots of a product hold available at a location
AvailableAt(ls, p, loc) ==
    SumQuantity([i \in DOMAIN ls |->
        [quantity |-> IF ls[i].product_id = p /\ ls[i].location_id = loc
                      THEN ls[i].available_quantity ELSE 0]])

\* the rows of sales_challan_items written since the last operation began
ItemsOfNewChallans ==
    {ci \in DOMAIN challanItems : challanItems[ci].sc_id > last.preNch}

\* C21: a direct challan creation with a line that asks for more than the
\* available stock of its product at the dispatch location returns an error
\* and persists nothing; so a direct creation that returned success, or left
\* a challan, an item, a lot change or a transaction, had every line within
\* the stock.
C21_DirectChallanAllOrNothing ==
    (/\ last.op = "create_sales_challan"
     /\ \/ last.ok
        \/ Len(challans) # last.preNch
        \/ ItemsOfNewChallans # {}
        \/ lots # last.preLots
        \/ Len(txns) # last.preNtx) =>
        \A ci \in ItemsOfNewChallans :
            challanItems[ci].weight_kg <=
                AvailableAt(last.preLots, challanItems[ci].product_id, DispatchLocation)

\* ---------------------------------------------------------------- C22
\* both requests are direct challan creations and both have returned
TwoDispatchesDone ==
    \A c \in Callers : calls[c].kind = "challan" /\ calls[c].pc = "done"

\* the OUTBOUND rows a call recorded for its challan item
OutboundOfCall(c) ==
    SelectSeq(txns, LAMBDA t : /\ t.transaction_type = "OUTBOUND"
                               /\ t.reference_type = "SALES_CHALLAN"
                               /\ t.reference_id = calls[c].challan_item)

\* C22: after two concurrent Outbound deductions no deduction is lost: every
\* lot is down from what it received by exactly the quantities of its
\* OUTBOUND transactions, and each call either recorded its whole quantity or
\* failed with an insufficient-stock error and recorded no OUTBOUND row.
C22_NoLostDeduction ==
    TwoDispatchesDone =>
        /\ \A lot \in DOMAIN lots :
              lots[lot].available_quantity =
                  InboundOn(txns, lot)[1].balance_quantity
                      - SumQuantity(OutboundOn(txns, lot))
        /\ \A c \in Callers :
              \/ /\ calls[c].result = "ok"
                 /\ SumQuantity(OutboundOfCall(c)) = SumWeight(calls[c].items)
              \/ /\ calls[c].result \in StockErrors
                 /\ OutboundOfCall(c) = <<>>

\* ---------------------------------------------------------------- C23
\* the attempts that executed the statement and had it fail with an error
\* that matches no pattern
OtherErrorAttempts(q) ==
    {i \in DOMAIN q.log : /\ q.log[i].outcome = "raised"
                          /\ q.log[i].executed = 1
                          /\ ~IsConnectionError(q.log[i].error)}

\* C23: execute_query makes a further attempt after a failure only when the
\* error matches a connection-fault pattern; after any other error the call
\* has returned None and nothing follows that attempt.
C23_RetryOnlyConnectionFaults ==
    \A i \in OtherErrorAttempts(calls[1]) :
        /\ i = Len(calls[1].log)
        /\ calls[1].pc = "done"
        /\ calls[1].result = "None"
        /\ calls[1].executions = 1

LotsCreatedFor(gi) ==
    {l \in (Len(last.preLots) + 1)..Len(lots) : lots[l].grn_item_id = gi}

\* C25: when create_grn returned success, every item of the GRN has exactly
\* one lot, created by the call, and the item row holds the id of that lot.
C25_OneLotPerGrnItem ==
    (last.op = "create_grn" /\ last.ok) =>
        \A gi \in (last.preNgi + 1)..Len(grnItems) :
            /\ Cardinality(LotsCreatedFor(gi)) = 1
            /\ grnItems[gi].inventory_lot_id \in LotsCreatedFor(gi)

\* ---------------------------------------------------------------- C26
\* the action of the allowed-actions table a request asks for: a body with
\* converted_to_grn is a conversion, a body with only a status marks the
\* order received or cancelled, a body with only supplierId and items is an
\* edit; "none" for bodies that mix the kinds or name no table action
RequestedAction(r) ==
    IF r.op = "delete" THEN "delete"
    ELSE IF r.op # "put" THEN "none"
    ELSE IF r.data.hasConverted /\ ~r.data.hasEdit THEN "convert_to_grn"
    ELSE IF r.data.hasStatus /\ ~r.data.hasConverted /\ ~r.data.hasEdit
    THEN (IF r.data.status = "Order Received" THEN "mark_received"
          ELSE IF r.data.status = "Order Cancelled" THEN "mark_cancelled"
          ELSE "none")
    ELSE IF r.data.hasEdit /\ ~r.data.hasStatus /\ ~r.data.hasConverted THEN "edit"
    ELSE "none"

\* C26: a PUT or DELETE on a purchase order whose action is not in the
\* allowed-actions table for the order's (status, converted_to_grn) is
\* rejected with an error and leaves the row and its items unchanged.
C26_DisallowedActionRejected ==
    (/\ last.op \in {"put", "delete"}
     /\ ~last.pre.is_deleted
     /\ RequestedAction(last) # "none"
     /\ ~validate_action(last.pre.status, last.pre.converted_to_grn,
                         RequestedAction(last))) =>
        /\ last.code = 400
        /\ purchase_orders[last.id] = last.pre

\* ---------------------------------------------------------------- C27
\* C27: a creation whose INSERT finds its minted number already taken by a
\* concurrent creation mints another number and tries again: no call ends
\* with the database error of the uniqueness conflict.
C27_ConflictIsReminted ==
    \A c \in Callers :
        calls[c].pc = "done" => calls[c].result # "db_error"

\* ---------------------------------------------------------------- C28
RECURSIVE SumField(_, _)
SumField(S, field) ==
    IF S = {} THEN 0
    ELSE LET r == CHOOSE x \in S : TRUE
         IN r[field] + SumField(S \ {r}, field)

\* the lots of a category at a location that hold any stock
StockedAt(category_id, location_id) ==
    {i \in DOMAIN lots : /\ lots[i].category_id = category_id
                         /\ lots[i].location_id = location_id
                         /\ \/ lots[i].available_quantity > 0
                            \/ lots[i].committed_quantity > 0}

\* C28: a stock listing asked for one location gives each category the
\* totals of the lots at that location only (available, committed, number
\* of products), and the available and committed totals of a category are
\* the sums over the rows of its products.
C28_CategoryTotalsAtLocation ==
    (alloc.fn = "get_stock_levels_by_category" /\ alloc.location_id # NoLocation) =>
        \A r \in alloc.result :
            LET S == StockedAt(r.categoryId, alloc.location_id) IN
            /\ r.totalAvailable = SumColumn(lots, S, "available_quantity")
            /\ r.totalCommitted = SumColumn(lots, S, "committed_quantity")
            /\ r.productCount = Cardinality({lots[i].product_id : i \in S})
            /\ r.totalAvailable = SumField(r.products, "availableQuantity")
            /\ r.totalCommitted = SumField(r.products, "committedQuantity")

\* ---------------------------------------------------------------- C29
\* the conversion has released its reservations and its Outbound has not
\* yet written a lot
ReleasedNotDispatched(c) ==
    /\ c.kind = "convert"
    /\ c.rows # <<>>
    /\ c.k = 1
    /\ \/ c.pc \in {"item_insert", "allocate"}
       \/ c.pc \in {"balance_select", "txn_insert", "lot_update"} /\ c.j = 1

\* what the conversion released at a location
ReleasedAt(c, loc) ==
    SumQuantity(SelectSeq(c.rows, LAMBDA t : lots[t.lot_id].location_id = loc))

\* C29: between a conversion's Unreserve and its Outbound no concurrent
\* order or challan takes the stock the conversion released: at every
\* location the product still has at least the released quantity available.
C29_ReleasedStockIsHeld ==
    \A c \in DOMAIN calls :
        ReleasedNotDispatched(calls[c]) =>
            \A loc \in Locations :
                AvailableAt(lots, calls[c].items[1].product_id, loc)
                    >= ReleasedAt(calls[c], loc)

\* ---------------------------------------------------------------- C30
\* the lots the last operation wrote RESERVE rows on
LotsReservedByLast ==
    {txns[i].lot_id : i \in {j \in DOMAIN txns : /\ j > last.preNtx
                                                    /\ IsReserveOf(txns[j], last.so)}}

\* C30: a sales order created with a location reserves only on lots at that
\* location.
C30_ReservesAtGivenLocation ==
    (last.op = "create_sales_order" /\ last.location_id # NoLocation) =>
        \A lot \in LotsReservedByLast : lots[lot].location_id = last.location_id

\* ---------------------------------------------------------------- C31
\* the guarded UPDATE of a reservation, or of a release, matched its row
ReserveStep(c) == calls[c].pc = "update" /\ calls'[c].pc = "log"

ReleaseStep(c) == calls[c].pc = "unreserve_update" /\ calls'[c].pc = "unreserve_log"

\* the step moved q on the lot by the given change of available_quantity,
\* kept the sum of the two counters and touched no other lot
MovedOnLot(lot, q, delta) ==
    /\ lots'[lot].available_quantity = lots[lot].available_quantity + delta
    /\ lots'[lot].available_quantity + lots'[lot].committed_quantity
           = lots[lot].available_quantity + lots[lot].committed_quantity
    /\ \A other \in DOMAIN lots : other # lot => lots'[other] = lots[other]
    /\ DOMAIN lots' = DOMAIN lots

\* C31: a successful Reserve step moves q from available to committed of its
\* lot only when available >= q, a successful Unreserve step moves q back
\* only when committed >= q; either keeps available + committed of the lot
\* and changes no other lot.
C31_ReserveUnreserveKeepSum ==
    [][\A c \in Callers :
          /\ ReserveStep(c) =>
                LET r == calls[c].plan[calls[c].j] IN
                /\ lots[r.lot_id].available_quantity >= r.allocated_quantity
                /\ MovedOnLot(r.lot_id, r.allocated_quantity, 0 - r.allocated_quantity)
          /\ ReleaseStep(c) =>
                LET row == calls[c].rows[calls[c].j] IN
                /\ lots[row.lot_id].committed_quantity >= row.quantity
                /\ MovedOnLot(row.lot_id, row.quantity, row.quantity)]_vars

\* one request has just reserved on a lot while the other has just released
C31_Witness ==
    \E c, d \in Callers :
        /\ calls[c].pc = "log"
        /\ calls[d].pc = "unreserve_log"
        /\ Len(lots) > 1

\* ---------------------------------------------------------------- C32
\* the UPDATE of an Outbound deduction ran
OutboundStep(c) == calls[c].pc = "lot_update" /\ calls'[c].pc # "lot_update"

\* C32: an Outbound deduction writes available_quantity of its lot only,
\* leaves committed_quantity of every lot as it was, and takes no more than
\* the lot has available, so that nothing committed to an order is
\* dispatched.
C32_OutboundTakesAvailableOnly ==
    [][\A c \in Callers :
          OutboundStep(c) =>
              LET a == calls[c].plan[calls[c].j] IN
              /\ \A lot \in DOMAIN lots :
                    /\ lots'[lot].committed_quantity = lots[lot].committed_quantity
                    /\ lot # a.lot_id => lots'[lot] = lots[lot]
              /\ a.allocated_quantity <= lots[a.lot_id].available_quantity]_vars

\* ---------------------------------------------------------------- C33
\* the columns of a lot other than its two quantities
LotIdentity(l) == [l EXCEPT !.available_quantity = 0, !.committed_quantity = 0]

\* C33: no operation of the ledger deletes a lot or changes its lot_number,
\* product_id, location_id or any column other than available_quantity and
\* committed_quantity.
C33_LotIdentityIsFixed ==
    [][/\ Len(lots') >= Len(lots)
       /\ \A lot \in DOMAIN lots : LotIdentity(lots'[lot]) = LotIdentity(lots[lot])]_vars

\* a lot at the second location was reserved on, released and emptied by an
\* Outbound, and is still in the table
C33_Witness ==
    \E lot \in DOMAIN lots :
        /\ lots[lot].location_id # FirstActiveLocation
        /\ lots[lot].available_quantity = 0
        /\ lots[lot].committed_quantity = 0
        /\ \E i, j, k \in DOMAIN txns :
              /\ txns[i].lot_id = lot /\ txns[i].reservation_type = "RESERVE"
              /\ txns[j].lot_id = lot /\ txns[j].reservation_type = "UNRESERVE"
              /\ txns[k].lot_id = lot /\ txns[k].transaction_type = "OUTBOUND"

\* ---------------------------------------------------------------- C34
\* the order of the last operation has no RESERVE transaction
NothingReserved ==
    ~\E i \in DOMAIN txns : /\ txns[i].reference_id = last.so
                            /\ txns[i].reference_type = "SALES_ORDER"
                            /\ txns[i].reservation_type = "RESERVE"

\* C34: the Unreserve that a cancellation runs on an order without RESERVE
\* transactions is no error (the cancellation succeeds), changes no lot and
\* appends no transaction.
C34_NothingToRelease ==
    (/\ last.op = "cancel"
     /\ last.preOrder.present /\ ~last.preOrder.is_deleted
     /\ last.preOrder.status # "Cancelled"
     /\ NothingReserved) =>
        /\ last.ok
        /\ lots = last.preLots
        /\ Len(txns) = last.preNtx

\* an order without lines was cancelled while a lot holds stock committed
\* to another order
C34_Witness ==
    /\ last.op = "cancel" /\ last.ok
    /\ last.preOrder.present /\ last.preOrder.status = "New"
    /\ NothingReserved
    /\ \E lot \in DOMAIN lots : lots[lot].committed_quantity > 0

\* ---------------------------------------------------------------- C35
\* the conversions of one sales order that inserted a challan
ChallansOfOrder(so) ==
    {c \in Callers : calls[c].kind = "convert" /\ calls[c].so = so /\ calls[c].sc # 0}

\* the OUTBOUND quantity the conversions of an order recorded
DeductedForOrder(so) ==
    SumQuantity(SelectSeq(txns, LAMBDA t :
        /\ t.transaction_type = "OUTBOUND"
        /\ t.reference_type = "SALES_CHALLAN"
        /\ \E c \in ChallansOfOrder(so) : t.reference_id = calls[c].challan_item))

\* C35: concurrent conversions of one sales order create at most one challan
\* for it and deduct its stock at most once.
C35_OneChallanPerOrder ==
    \A so \in DOMAIN orders :
        /\ Cardinality(ChallansOfOrder(so)) <= 1
        /\ DeductedForOrder(so) <= SumWeight(orders[so].items)

\* ---------------------------------------------------------------- C36
\* the UNRESERVE quantity the log holds for an order on a lot
ReleasedOn(tx, so, lot) ==
    SumQuantity(SelectSeq(tx, LAMBDA t : /\ t.transaction_type = "ADJUSTMENT"
                                         /\ t.reference_type = "SALES_ORDER"
                                         /\ t.reference_id = so
                                         /\ t.reservation_type = "UNRESERVE"
                                         /\ t.lot_id = lot))

\* C36: when update_sales_order_status to Cancelled succeeds for a New order,
\* on every lot the UNRESERVE quantities of the order equal its RESERVE
\* quantities.
C36_CancelReleasesEverything ==
    (last.op = "cancel" /\ last.ok /\ last.preOrder.status = "New")
        => \A lot \in DOMAIN lots :
              ReleasedOn(txns, last.so, lot) = ReservedOn(txns, last.so, lot)

\* ---------------------------------------------------------------- C37
\* the quantity a delivery of the order deducted from the lots of a product
DeliveredOf(so, p) ==
    SumQuantity(SelectSeq(txns, LAMBDA t : /\ t.transaction_type = "OUTBOUND"
                                         /\ t.reference_type = "SALES_ORDER_DELIVERY"
                                         /\ t.reference_id = so
                                         /\ lots[t.lot_id].product_id = p))

\* the quantity the order requires of a product
RequiredOf(so, p) ==
    SumWeight(SelectSeq(orders[so].items, LAMBDA item : item.product_id = p))

\* C37: when update_sales_order_status moves a New order to Delivered, every
\* product of the order has exactly its required quantity deducted, the
\* order's reservation is released exactly once and no lot's
\* available_quantity is below zero.
C37_DeliverDeductsAndReleasesOnce ==
    (last.op = "deliver" /\ last.ok /\ last.preOrder.status = "New")
        => /\ \A p \in Products : DeliveredOf(last.so, p) = RequiredOf(last.so, p)
           /\ \A lot \in DOMAIN lots :
                 ReleasedOn(txns, last.so, lot) = ReservedOn(txns, last.so, lot)
           /\ \A lot \in DOMAIN lots : lots[lot].available_quantity >= 0

\* ---------------------------------------------------------------- C38
\* C38: create_job_order mints a JO number different from the number of
\* every existing job order, soft-deleted ones included.
C38_JoNumberIsFresh ==
    alloc.fn = "create_job_order" => alloc.number \notin alloc.before

\* ---------------------------------------------------------------- C39
\* the connections a request has checked out and not returned
HeldBy(d) == {calls[d].conn, calls[d].outer} \ {0}

\* C39: a connection checked out by one request is never closed by a step of
\* another request.
C39_HeldConnectionsStayOpen ==
    [][\A d \in Callers :
          calls'[d] = calls[d] => HeldBy(d) \cap alloc'.closed = HeldBy(d) \cap alloc.closed]_vars

\* ---------------------------------------------------------------- C40
\* C40: over the constructions of the process every caller gets the same
\* instance and the body of __init__ runs at most once.
C40_InitialisedOnce ==
    /\ alloc.init_runs <= 1
    /\ \A t, u \in DOMAIN calls :
          (calls[t].got # 0 /\ calls[u].got # 0) => calls[t].got = calls[u].got

\* two request threads are inside __init__ at once and a third has its
\* manager, after the one run of the body at import
C40_Witness ==
    /\ alloc.init_runs = 1
    /\ \E t, u, v \in DOMAIN calls \ {1} :
          /\ t # u
          /\ calls[t].pc = "init_check" /\ calls[u].pc = "init_check"
          /\ calls[v].got # 0 /\ calls[v].n = MaxConstructions

====
